---- MODULE Spec2Model ----
(***************************************************************************)
(* staging-coordinator: the release-approval coordination core.            *)
(*                                                                         *)
(* One run of the CLI: main -> checkRelease -> requestApproval ->          *)
(* waitForApproval, against the injected capabilities (SheetsClient,       *)
(* SlackClient).  Every await of the code is one action: the action takes  *)
(* the outcome of the awaited call (a success Result, a failure Result or  *)
(* a thrown error) and runs the code up to the next await.                 *)
(***************************************************************************)
EXTENDS Integers, Sequences, FiniteSets, TLC

VARIABLES
    config,             \* ReleaseCheckConfig handed to checkRelease
    clock,              \* Date.now(), in ms
    pc,                 \* the await the run is suspended at
    schedulesResult,    \* checkRelease: schedulesResult, until the request is posted
    relevantSchedules,  \* checkRelease: relevantSchedules
    calls,              \* every capability call made so far, in order
    outcomes,           \* how each settled call ended: "ok", "err" or "throw"
    wfa,                \* waitForApproval: its arguments, timeoutMs, startTime
    fetched,            \* waitForApproval: the last reactionsResult
    pending,            \* waitForApproval: the decision being recorded
    approvalResult,     \* the value waitForApproval returned
    currentTimeResult,  \* checkRelease: currentTimeResult
    result,             \* the value checkRelease resolved to
    exitCode,           \* the code main passed to process.exit
    call,               \* a utility function applied on its own: its name and arguments
    ret,                \* what that function returned
    messages,           \* two runs at once: the messages of the Slack channel
    runs                \* two runs at once: the locals of each checkRelease

vars == <<config, clock, pc, currentTimeResult, schedulesResult, relevantSchedules, calls,
          outcomes, wfa, fetched, pending, approvalResult, result, exitCode, call, ret,
          messages, runs>>

\* A value that is not there yet (undefined).
Undefined == [undefined |-> TRUE]

-----------------------------------------------------------------------------
(* Bounds of the model *)

\* longest reaction list one getReactions call returns
MaxReactions == 2
\* latency of a slow capability call inside the polling loop, in ms
SlowMs == 50000
\* latest instant of the utility functions' inputs: instants are 0..MaxInstant
MaxInstant == 2
\* longest schedule list handed to a utility function on its own
MaxSchedules == 2

-----------------------------------------------------------------------------
(* Inputs *)

ChannelId == "C0123"
MessageTs == "1700000000.000100"

Requester == "U_REQ"
UserIds == {"U_REQ", "U_AAA", "U_BBB"}

\* the users of one reaction, as Slack lists them
UserLists == { <<"U_REQ">>, <<"U_AAA">>, <<"U_REQ", "U_AAA">>, <<"U_BBB", "U_AAA">> }

ReactionNames == {"ok", "-1", "eyes"}

Reactions == [name : ReactionNames, users : UserLists]

SeqsUpTo(S, n) == UNION { [1..k -> S] : k \in 0..n }

\* what reactions.get returns: one entry for each emoji on the message
ReactionLists ==
    { rs \in SeqsUpTo(Reactions, MaxReactions) :
        \A i, j \in DOMAIN rs : rs[i].name = rs[j].name => i = j }

\* the clock when main starts: 10:00 UTC, 19:00 in Asia/Tokyo
Clock0 == 600 * 60 * 1000

Hour(h) == h * 60 * 60 * 1000

Person(id) == IF id = "U_AAA" THEN "Alice" ELSE "Bob"

Sched(p, e, s, t, id) ==
    [productName |-> p, environmentName |-> e, startDateTime |-> s,
     endDateTime |-> t, personInChargeId |-> id,
     personInChargeName |-> Person(id), remarks |-> ""]

\* rows of the sheet, already validated
Active9to20 == Sched("app", "staging", Hour(9),  Hour(20), "U_AAA")
StartsNowUtc == Sched("app", "staging", Hour(10), Hour(11), "U_BBB")
EndsNowUtc == Sched("app", "staging", Hour(9),  Hour(10), "U_AAA")
StartsNowTokyo == Sched("app", "staging", Hour(19), Hour(20), "U_AAA")
EndsNowTokyo == Sched("app", "staging", Hour(11), Hour(19), "U_BBB")
Inverted == Sched("app", "staging", Hour(20), Hour(9),  "U_BBB")
OtherProduct == Sched("web", "staging", Hour(9),  Hour(20), "U_AAA")
OtherEnvironment == Sched("app", "prod",    Hour(9),  Hour(20), "U_BBB")

\* what fetchSchedules returns: no row, rows of other products and
\* environments, ranges that end or start exactly now in either reading of
\* the clock, an inverted range, and rows that match
ScheduleLists ==
    { << >>,
      <<OtherProduct>>, <<OtherEnvironment>>, <<Inverted>>,
      <<EndsNowUtc, EndsNowTokyo>>, <<OtherProduct, OtherEnvironment>>,
      <<StartsNowUtc>>, <<StartsNowTokyo>>,
      <<Active9to20>>, <<OtherProduct, Active9to20>>,
      <<StartsNowUtc, Active9to20, StartsNowTokyo>> }

\* optional fields of ReleaseCheckConfig are fields the record may lack
Required == [productName |-> "app", environmentName |-> "staging"]

\* the configurations of a run: the CLI's wait of one minute with and without
\* a requester, in the default and in an explicit timezone, with the default
\* tokens and with custom tokens (the defaults swapped); an unknown timezone;
\* a wait that is already over
Configs ==
    { Required @@ [waitMinutes |-> 1],
      Required @@ [waitMinutes |-> 1, requesterUserId |-> Requester, timezone |-> "UTC"],
      Required @@ [waitMinutes |-> 1, requesterUserId |-> Requester,
                   approveReaction |-> "-1", rejectReaction |-> "ok"],
      Required @@ [waitMinutes |-> 1, timezone |-> "Mars/Phobos"],
      Required @@ [waitMinutes |-> -1, requesterUserId |-> Requester] }

-----------------------------------------------------------------------------
(* utils/result.ts *)

ok(v) == [ok |-> TRUE, value |-> v]
err(e) == [ok |-> FALSE, error |-> e]

-----------------------------------------------------------------------------
(* utils/date.ts *)

ValidTimezones == {"UTC", "Asia/Tokyo"}

\* dayjs: the UTC offset of a zone, in minutes
utcOffset(timezoneStr) == IF timezoneStr = "Asia/Tokyo" THEN 9 * 60 ELSE 0

\* an unknown zone read as UTC
getCurrentDateTime_lenient(timezoneStr, now) ==
    ok(now + utcOffset(timezoneStr) * 60 * 1000)

\* the UTC instant shifted by the zone's offset; an unknown zone makes dayjs
\* throw, which is caught and returned as a failure
getCurrentDateTime(timezoneStr, now) ==
    IF timezoneStr \in ValidTimezones
    THEN ok(now + utcOffset(timezoneStr) * 60 * 1000)
    ELSE err("Invalid timezone")

\* a range whose end is before its start read as one that wraps around
isWithinTimeRange_wrapping(current, start, end) ==
    IF start <= end
    THEN current >= start /\ current < end
    ELSE current >= start \/ current < end

\* a window that does not hold its start
isWithinTimeRange_exclusiveStart(current, start, end) == current > start /\ current < end

\* a window that still holds its end
isWithinTimeRange_inclusiveEnd(current, start, end) == current >= start /\ current <= end

isWithinTimeRange(current, start, end) == current >= start /\ current < end

\* the active schedules, latest first
findActiveSchedules_reversed(schedules, current) ==
    LET active == SelectSeq(schedules,
                            LAMBDA s : current >= s.startDateTime /\ current < s.endDateTime)
    IN  [k \in DOMAIN active |-> active[Len(active) + 1 - k]]

findActiveSchedules(schedules, current) ==
    SelectSeq(schedules,
              LAMBDA s : isWithinTimeRange(current, s.startDateTime, s.endDateTime))

\* a pair found only when the second schedule starts inside the first
overlap_startsInside(schedule1, schedule2) ==
    /\ schedule1.environmentName = schedule2.environmentName
    /\ schedule1.startDateTime <= schedule2.startDateTime
    /\ schedule2.startDateTime < schedule1.endDateTime

\* ranges that touch taken as overlapping
overlap_touching(schedule1, schedule2) ==
    /\ schedule1.environmentName = schedule2.environmentName
    /\ schedule1.startDateTime <= schedule2.endDateTime
    /\ schedule2.startDateTime <= schedule1.endDateTime

\* the test of one pair in findOverlappingSchedules
overlap(schedule1, schedule2) ==
    /\ schedule1.environmentName = schedule2.environmentName
    /\ schedule1.startDateTime < schedule2.endDateTime
    /\ schedule2.startDateTime < schedule1.endDateTime

\* the two nested loops, from the pair (i, j) on
RECURSIVE overlapsFrom(_, _, _)
overlapsFrom(schedules, i, j) ==
    IF i > Len(schedules) THEN << >>
    ELSE IF j > Len(schedules) THEN overlapsFrom(schedules, i + 1, i + 2)
    ELSE IF overlap(schedules[i], schedules[j])
         THEN << <<schedules[i], schedules[j]>> >> \o overlapsFrom(schedules, i, j + 1)
         ELSE overlapsFrom(schedules, i, j + 1)

findOverlappingSchedules(schedules) == overlapsFrom(schedules, 1, 2)

\* getScheduleStatus testing the end of the range before its start
getScheduleStatus_endFirst(schedule, currentTime) ==
    IF currentTime >= schedule.endDateTime THEN "COMPLETED"
    ELSE IF currentTime < schedule.startDateTime THEN "NOT_STARTED"
    ELSE "ACTIVE"

getScheduleStatus(schedule, currentTime) ==
    IF currentTime < schedule.startDateTime THEN "NOT_STARTED"
    ELSE IF currentTime >= schedule.endDateTime THEN "COMPLETED"
    ELSE "ACTIVE"

-----------------------------------------------------------------------------
(* lib/schedule.ts *)

\* new Date(year, month, day, hour, minute, second): the instant at which the
\* clocks of the host process, hostOffset minutes ahead of UTC, show the wall
\* clock time wall
localDate(wall, hostOffset) == wall - hostOffset * 60 * 1000

\* a text is the sequence of its characters
Digit == {"0", "1", "2", "3", "4", "5", "6", "7", "8", "9"}

\* \s, as far as a cell of the sheet holds it
Whitespace == {" ", "\t"}

digitValue(c) == CHOOSE n \in 0..9 : <<"0", "1", "2", "3", "4", "5", "6", "7", "8", "9">>[n + 1] = c

RECURSIVE parseInt(_)
\* Number.parseInt(digits, 10) of a captured group
parseInt(digits) ==
    IF digits = << >> THEN 0
    ELSE parseInt(SubSeq(digits, 1, Len(digits) - 1)) * 10 + digitValue(digits[Len(digits)])

RECURSIVE many(_, _, _)
\* the length of the longest run of characters of class that starts at text[i]
many(text, i, class) ==
    IF i <= Len(text) /\ text[i] \in class THEN 1 + many(text, i + 1, class) ELSE 0

trim(text) ==
    LET lead == many(text, 1, Whitespace)
        kept == { n \in lead..Len(text) : n = lead \/ text[n] \notin Whitespace }
        last == CHOOSE n \in kept : \A k \in kept : k <= n
    IN  SubSeq(text, lead + 1, last)

\* the pieces of /^(\d{4})\/(\d{1,2})\/(\d{1,2})\s+(\d{1,2}):(\d{1,2})(?::(\d{1,2}))?$/
\* in order: a class of characters and how many of them the piece takes
Piece(class, min, max) == [class |-> class, min |-> min, max |-> max]

UpToMinute ==
    << Piece(Digit, 4, 4), Piece({"/"}, 1, 1), Piece(Digit, 1, 2), Piece({"/"}, 1, 1),
       Piece(Digit, 1, 2), Piece(Whitespace, 1, 1000), Piece(Digit, 1, 2),
       Piece({":"}, 1, 1), Piece(Digit, 1, 2) >>

OptionalSecond == << Piece({":"}, 1, 1), Piece(Digit, 1, 2) >>

RECURSIVE matchFrom(_, _, _)
\* the pieces matched against the text from position i to its end: the texts
\* the pieces took. Each piece is followed by a character outside its class or
\* by the end, so a match takes the whole run of the class at its position.
matchFrom(text, i, pieces) ==
    IF pieces = << >>
    THEN [matched |-> i = Len(text) + 1, taken |-> << >>]
    ELSE LET n == many(text, i, Head(pieces).class)
             rest == matchFrom(text, i + n, Tail(pieces))
         IN  IF n >= Head(pieces).min /\ n <= Head(pieces).max /\ rest.matched
             THEN [matched |-> TRUE, taken |-> <<SubSeq(text, i, i + n - 1)>> \o rest.taken]
             ELSE [matched |-> FALSE, taken |-> << >>]

\* the captured groups of a match: const [, year, month, day, hour, minute, second]
groups(taken) ==
    [year |-> taken[1], month |-> taken[3], day |-> taken[5], hour |-> taken[7],
     minute |-> taken[9], second |-> taken[11]]

\* dateTimeStr.match(regex): the captured groups, or Undefined for null. A
\* group that did not take part is the empty text.
regexMatch(text) ==
    LET withSecond == matchFrom(text, 1, UpToMinute \o OptionalSecond)
        withoutSecond == matchFrom(text, 1, UpToMinute)
    IN  IF withSecond.matched THEN groups(withSecond.taken)
        ELSE IF withoutSecond.matched
        THEN groups(withoutSecond.taken \o << <<":">>, << >> >>)
        ELSE Undefined

\* the number of the day year-month-day, counted from 1970-01-01, in the
\* proleptic Gregorian calendar; day may lie outside the month
MakeDay(year, month, day) ==
    LET y == IF month <= 2 THEN year - 1 ELSE year
        era == y \div 400
        yoe == y - era * 400
        mp == (month + 9) % 12
        doy == (153 * mp + 2) \div 5 + day - 1
        doe == yoe * 365 + yoe \div 4 - yoe \div 100 + doy
    IN  era * 146097 + doe - 719468

\* the calendar date of a day number
DateFromDay(dayNumber) ==
    LET z == dayNumber + 719468
        era == z \div 146097
        doe == z - era * 146097
        yoe == (doe - doe \div 1460 + doe \div 36524 - doe \div 146096) \div 365
        doy == doe - (365 * yoe + yoe \div 4 - yoe \div 100)
        mp == (5 * doy + 2) \div 153
        month == IF mp < 10 THEN mp + 3 ELSE mp - 9
    IN  [year |-> yoe + era * 400 + (IF month <= 2 THEN 1 ELSE 0),
         month |-> month,
         day |-> doy - (153 * mp + 2) \div 5 + 1]

\* the periods, in seconds of UTC, in which the clocks of the host process are
\* an hour ahead of its standard offset: America/New_York in 2024 and 2025,
\* none in UTC and in Asia/Tokyo
daylightSaving(hostOffset) ==
    IF hostOffset = -5 * 60
    THEN { <<MakeDay(2024, 3, 10) * 86400 + 7 * 3600, MakeDay(2024, 11, 3) * 86400 + 6 * 3600>>,
           <<MakeDay(2025, 3, 9) * 86400 + 7 * 3600, MakeDay(2025, 11, 2) * 86400 + 6 * 3600>> }
    ELSE {}

\* the offset of the host's clocks from UTC at the instant t, in seconds
localOffset(t, hostOffset) ==
    hostOffset * 60
        + (IF \E p \in daylightSaving(hostOffset) : p[1] <= t /\ t < p[2] THEN 3600 ELSE 0)

\* the instant at which the host's clocks show the local time: a time the
\* clocks skip is read with the offset in force before the skip
UTC(localTime, hostOffset) ==
    LET summer == localTime - (hostOffset * 60 + 3600)
    IN  IF localOffset(summer, hostOffset) = hostOffset * 60 + 3600
        THEN summer
        ELSE localTime - hostOffset * 60

\* new Date(year, monthIndex, day, hours, minutes, seconds) in a process whose
\* standard UTC offset is hostOffset minutes: the time value, here in seconds
\* since 1970-01-01T00:00:00Z (the milliseconds are 0). Years 0 to 99 are read
\* as 1900 to 1999, and components out of range carry into the next unit.
newDate(year, monthIndex, day, hours, minutes, seconds, hostOffset) ==
    LET fullYear == IF year \in 0..99 THEN 1900 + year ELSE year
        ym == fullYear + monthIndex \div 12
        mn == monthIndex % 12
        localTime == (MakeDay(ym, mn + 1, 1) + day - 1) * 86400
                         + hours * 3600 + minutes * 60 + seconds
    IN  UTC(localTime, hostOffset)

\* getFullYear(), getMonth(), getDate(), getHours(), getMinutes(), getSeconds()
\* of the time value date in that process
getLocal(date, hostOffset) ==
    LET localTime == date + localOffset(date, hostOffset)
        ymd == DateFromDay(localTime \div 86400)
        inDay == localTime % 86400
    IN  [FullYear |-> ymd.year, Month |-> ymd.month - 1, Date |-> ymd.day,
         Hours |-> inDay \div 3600, Minutes |-> (inDay % 3600) \div 60,
         Seconds |-> inDay % 60]

\* Number.parseInt of the groups of a match: the year, the month as the Date
\* constructor counts it, the day, hour and minute, and expectedSecond
parsed(match) ==
    [FullYear |-> parseInt(match.year), Month |-> parseInt(match.month) - 1,
     Date |-> parseInt(match.day), Hours |-> parseInt(match.hour),
     Minutes |-> parseInt(match.minute),
     Seconds |-> IF match.second # << >> THEN parseInt(match.second) ELSE 0]

\* the Date constructed from the parsed components
constructed(p, hostOffset) ==
    newDate(p.FullYear, p.Month, p.Date, p.Hours, p.Minutes, p.Seconds, hostOffset)

\* parseDateTime accepting what the Date constructor made of the components
parseDateTime_unchecked(dateTimeStr, hostOffset) ==
    LET match == regexMatch(dateTimeStr)
    IN  IF dateTimeStr = << >> \/ trim(dateTimeStr) = << >>
        THEN err(<<"Invalid datetime format: ", "empty string">>)
        ELSE IF match = Undefined
        THEN err(<<"Invalid datetime format: ", dateTimeStr>>)
        ELSE ok(constructed(parsed(match), hostOffset))

\* the six getters are compared with the parsed components together: the
\* records differ when one of the six differs
parseDateTime(dateTimeStr, hostOffset) ==
    LET match == regexMatch(dateTimeStr)
        date == constructed(parsed(match), hostOffset)
    IN  IF dateTimeStr = << >> \/ trim(dateTimeStr) = << >>
        THEN err(<<"Invalid datetime format: ", "empty string">>)
        ELSE IF match = Undefined
        THEN err(<<"Invalid datetime format: ", dateTimeStr>>)
        ELSE IF getLocal(date, hostOffset) # parsed(match)
        THEN err(<<"Invalid datetime format: ", dateTimeStr>>)
        ELSE ok(date)

isValidSlackUserId(userId) == Len(userId) >= 3

\* validateScheduleRow testing the identifier before the datetimes
validateScheduleRow_idFirst(row, hostOffset) ==
    IF Len(row) < 7
    THEN err(<<"Invalid row data: insufficient columns", 7, Len(row)>>)
    ELSE IF ~isValidSlackUserId(row[5])
    THEN err(<<"Invalid person in charge ID: ", row[5]>>)
    ELSE LET startDateTimeResult == parseDateTime(row[3], hostOffset)
             endDateTimeResult == parseDateTime(row[4], hostOffset)
         IN  IF ~startDateTimeResult.ok
             THEN err(<<"Invalid start datetime: ">> \o startDateTimeResult.error)
             ELSE IF ~endDateTimeResult.ok
             THEN err(<<"Invalid end datetime: ">> \o endDateTimeResult.error)
             ELSE ok([productName |-> row[1], environmentName |-> row[2],
                      startDateTime |-> startDateTimeResult.value,
                      endDateTime |-> endDateTimeResult.value,
                      personInChargeId |-> row[5], personInChargeName |-> row[6],
                      remarks |-> row[7]])

\* a row is the sequence of its cells; the message of an error is kept as its
\* pieces, the fixed text first
validateScheduleRow(row, hostOffset) ==
    IF Len(row) < 7
    THEN err(<<"Invalid row data: insufficient columns", 7, Len(row)>>)
    ELSE LET startDateTimeResult == parseDateTime(row[3], hostOffset)
             endDateTimeResult == parseDateTime(row[4], hostOffset)
         IN  IF ~startDateTimeResult.ok
             THEN err(<<"Invalid start datetime: ">> \o startDateTimeResult.error)
             ELSE IF ~endDateTimeResult.ok
             THEN err(<<"Invalid end datetime: ">> \o endDateTimeResult.error)
             ELSE IF ~isValidSlackUserId(row[5])
             THEN err(<<"Invalid person in charge ID: ", row[5]>>)
             ELSE ok([productName |-> row[1], environmentName |-> row[2],
                      startDateTime |-> startDateTimeResult.value,
                      endDateTime |-> endDateTimeResult.value,
                      personInChargeId |-> row[5], personInChargeName |-> row[6],
                      remarks |-> row[7]])

-----------------------------------------------------------------------------
(* lib/sheets.ts *)

RECURSIVE validated_stopAtInvalid(_, _)
\* the loop over the data rows ending at the first invalid row
validated_stopAtInvalid(dataRows, hostOffset) ==
    IF dataRows = << >> THEN << >>
    ELSE LET rowResult == validateScheduleRow(Head(dataRows), hostOffset)
         IN  IF rowResult.ok
             THEN <<rowResult.value>> \o validated_stopAtInvalid(Tail(dataRows), hostOffset)
             ELSE << >>

RECURSIVE validated(_, _)
\* the loop over the data rows: the schedules pushed
validated(dataRows, hostOffset) ==
    IF dataRows = << >> THEN << >>
    ELSE LET rowResult == validateScheduleRow(Head(dataRows), hostOffset)
         IN  IF rowResult.ok
             THEN <<rowResult.value>> \o validated(Tail(dataRows), hostOffset)
             ELSE validated(Tail(dataRows), hostOffset)

\* GoogleSheetsClient.fetchSchedules, given how api.getValues settled: with
\* the rows of the sheet, or rejected
fetchSchedules(getValues, hostOffset) ==
    IF ~getValues.ok
    THEN err(<<"Failed to fetch schedules from Google Sheets: ", getValues.error>>)
    ELSE IF getValues.value = << >>
    THEN ok(<< >>)
    ELSE ok(validated(Tail(getValues.value), hostOffset))

-----------------------------------------------------------------------------
(* services/release-checker.ts: pure parts *)

\* a || b on optional string and number fields
StrOr(cfg, f, d) == IF f \in DOMAIN cfg /\ cfg[f] # "" THEN cfg[f] ELSE d
NumOr(cfg, f, d) == IF f \in DOMAIN cfg /\ cfg[f] # 0 THEN cfg[f] ELSE d

\* the product compared alone
findRelevantSchedules_anyEnvironment(schedules, productName, environmentName, current) ==
    findActiveSchedules(SelectSeq(schedules, LAMBDA s : s.productName = productName),
                        current)

findRelevantSchedules(schedules, productName, environmentName, current) ==
    findActiveSchedules(
        SelectSeq(schedules,
                  LAMBDA s : s.productName = productName
                             /\ s.environmentName = environmentName),
        current)

includes(xs, x) == \E i \in DOMAIN xs : xs[i] = x

\* [...new Set(xs)]: first occurrences, in order
RECURSIVE uniq(_)
uniq(xs) ==
    IF xs = << >> THEN << >>
    ELSE LET init == uniq(SubSeq(xs, 1, Len(xs) - 1))
             last == xs[Len(xs)]
         IN  IF includes(init, last) THEN init ELSE Append(init, last)

\* the person in charge of every schedule, repeated ones too
personIds_repeated(schedules) == [i \in DOMAIN schedules |-> schedules[i].personInChargeId]

personIds(schedules) == uniq([i \in DOMAIN schedules |-> schedules[i].personInChargeId])

\* the approval request: what the template interpolates
\* a message that announces the fields of the config as they were given
requestText_asGiven(schedules, cfg) ==
    [kind |-> "Release Request",
     product |-> cfg.productName,
     environment |-> cfg.environmentName,
     requester |-> StrOr(cfg, "requesterUserId", ""),
     scheduleList |-> [i \in DOMAIN schedules |->
                          <<schedules[i].productName, schedules[i].personInChargeName>>],
     approve |-> IF "approveReaction" \in DOMAIN cfg THEN cfg.approveReaction ELSE "ok",
     reject |-> IF "rejectReaction" \in DOMAIN cfg THEN cfg.rejectReaction ELSE "-1",
     timeout |-> IF "waitMinutes" \in DOMAIN cfg THEN cfg.waitMinutes ELSE 20]

requestText(schedules, cfg) ==
    [kind |-> "Release Request",
     product |-> cfg.productName,
     environment |-> cfg.environmentName,
     requester |-> StrOr(cfg, "requesterUserId", ""),
     scheduleList |-> [i \in DOMAIN schedules |->
                          <<schedules[i].productName, schedules[i].personInChargeName>>],
     approve |-> StrOr(cfg, "approveReaction", "ok"),
     reject |-> StrOr(cfg, "rejectReaction", "-1"),
     timeout |-> NumOr(cfg, "waitMinutes", 20)]

RECURSIVE flatMapUsers(_)
flatMapUsers(rs) ==
    IF rs = << >> THEN << >> ELSE rs[1].users \o flatMapUsers(Tail(rs))

\* the users of the token's reactions, the excluded ones too
deciders_noExclusion(reactions, token, excludeUserIds) ==
    flatMapUsers(SelectSeq(reactions, LAMBDA r : r.name = token))

\* the deciders, the last one first
deciders_lastFirst(reactions, token, excludeUserIds) ==
    LET ds == SelectSeq(flatMapUsers(SelectSeq(reactions, LAMBDA r : r.name = token)),
                        LAMBDA u : ~includes(excludeUserIds, u))
    IN  [k \in DOMAIN ds |-> ds[Len(ds) + 1 - k]]

\* reactions.filter(name === token).flatMap(users).filter(not excluded)
\* the exclusion applied to reactions as a whole: a reaction counts, with all
\* its users, when some user of it is not excluded
deciders_wholeReaction(reactions, token, excludeUserIds) ==
    flatMapUsers(SelectSeq(reactions,
        LAMBDA r : r.name = token /\ \E k \in DOMAIN r.users :
                                         ~includes(excludeUserIds, r.users[k])))

deciders(reactions, token, excludeUserIds) ==
    SelectSeq(flatMapUsers(SelectSeq(reactions, LAMBDA r : r.name = token)),
              LAMBDA u : ~includes(excludeUserIds, u))

\* approvals looked at before rejections
decide_approvalFirst(reactions, w) ==
    LET rejectors == deciders(reactions, w.rejectReaction, w.excludeUserIds)
        approvers == deciders(reactions, w.approveReaction, w.excludeUserIds)
    IN  IF approvers # << >>
        THEN [status |-> "approved", approvers |-> approvers, mark |-> "approved"]
        ELSE IF rejectors # << >>
        THEN [status |-> "rejected", approvers |-> rejectors, mark |-> "rejected"]
        ELSE Undefined

\* an approval that needs two approvers
decide_quorum(reactions, w) ==
    LET rejectors == deciders(reactions, w.rejectReaction, w.excludeUserIds)
        approvers == deciders(reactions, w.approveReaction, w.excludeUserIds)
    IN  IF rejectors # << >>
        THEN [status |-> "rejected", approvers |-> rejectors, mark |-> "rejected"]
        ELSE IF Len(approvers) >= 2
        THEN [status |-> "approved", approvers |-> approvers, mark |-> "approved"]
        ELSE Undefined

\* one tick on a fetched reaction list: rejections first, then approvals
decide(reactions, w) ==
    LET rejectors == deciders(reactions, w.rejectReaction, w.excludeUserIds)
        approvers == deciders(reactions, w.approveReaction, w.excludeUserIds)
    IN  IF rejectors # << >>
        THEN [status |-> "rejected", approvers |-> rejectors, mark |-> "rejected"]
        ELSE IF approvers # << >>
        THEN [status |-> "approved", approvers |-> approvers, mark |-> "approved"]
        ELSE Undefined

DefaultPollIntervalMs == 15 * 1000

\* a final mapping that drops the approvers
releaseCheckResult_noApprovers(ar, schedules, waitMinutes) ==
    [status |-> ar.status,
     message |-> <<ar.status>>,
     schedules |-> schedules]

\* the final mapping of checkRelease
releaseCheckResult(ar, schedules, waitMinutes) ==
    LET base == [status |-> ar.status,
                 message |-> IF ar.status = "timeout"
                             THEN <<"timed out after", waitMinutes>>
                             ELSE <<ar.status, "by", ar.approvers>>,
                 schedules |-> schedules]
    IN  IF "approvers" \in DOMAIN ar
        THEN base @@ [approvers |-> ar.approvers]
        ELSE base

-----------------------------------------------------------------------------
(* The run *)

Init ==
    /\ config \in Configs
    /\ clock = Clock0
    /\ pc = "main"
    /\ currentTimeResult = Undefined
    /\ schedulesResult = Undefined
    /\ relevantSchedules = << >>
    /\ calls = << >>
    /\ outcomes = << >>
    /\ wfa = Undefined
    /\ fetched = Undefined
    /\ pending = Undefined
    /\ approvalResult = Undefined
    /\ result = Undefined
    /\ exitCode = Undefined
    /\ call = Undefined
    /\ ret = Undefined
    /\ messages = << >>
    /\ runs = << >>

\* an exit code that follows only the tag of the Result
main_okExitsZero(r) == IF ~r.ok THEN 1 ELSE 0

\* main: the exit code for the value checkRelease resolved to
main(r) ==
    IF ~r.ok THEN 1
    ELSE IF r.value.status = "approved" \/ r.value.status = "no_schedule" THEN 0 ELSE 1

\* checkRelease resolves to r, and main, which awaits it, exits the process
Return(r) ==
    /\ result' = r
    /\ exitCode' = [code |-> main(r)]
    /\ pc' = "exited"

\* a throw that leaves checkRelease and is caught by main alone
Catch_unhandled ==
    /\ UNCHANGED result
    /\ exitCode' = [code |-> 1]
    /\ pc' = "exited"

\* a capability call threw inside the try block of checkRelease
Catch == Return(err("Release check failed"))

\* the fetch failure propagated as a failure of the run
availabilityFirstResult_blocking == err("Failed to fetch schedules")

\* what checkRelease returns once the error notice settled, posted or not
availabilityFirstResult ==
    ok([status |-> "approved",
        message |-> <<"proceeding due to error (availability-first policy)">>])

\* a failed post of the approval request treated like a failed fetch
postFailedResult_swallowed == availabilityFirstResult

\* what checkRelease returns when the approval request could not be posted
\* a failed post of the approval request taken as a request nobody answered
postFailedResult_timedOut ==
    ok([status |-> "timeout", message |-> <<"timed out after", 0>>, schedules |-> << >>])

postFailedResult == err("Failed to post approval request to Slack")

\* main calls checkRelease, which runs up to its first await
checkRelease ==
    /\ pc = "main"
    /\ UNCHANGED outcomes
    /\ currentTimeResult' =
           getCurrentDateTime(StrOr(config, "timezone", "Asia/Tokyo"), clock)
    /\ IF ~currentTimeResult'.ok
       THEN /\ Return(err(currentTimeResult'.error))
            /\ UNCHANGED calls
       ELSE /\ calls' = Append(calls, [op |-> "fetchSchedules"])
            /\ pc' = "fetchSchedules"
            /\ UNCHANGED <<result, exitCode>>
    /\ UNCHANGED <<call, ret, messages, runs>>
    /\ UNCHANGED <<config, clock, schedulesResult, relevantSchedules, wfa, fetched, pending,
                   approvalResult>>

\* services.sheets.fetchSchedules() settles
fetchSchedulesReturn(outcome, schedules) ==
    /\ pc = "fetchSchedules"
    /\ outcomes' = Append(outcomes, outcome)
    /\ CASE outcome = "throw" ->
              /\ Catch
              /\ UNCHANGED <<schedulesResult, relevantSchedules, calls>>
         [] outcome = "err" ->
              /\ schedulesResult' = err("Failed to fetch schedules")
              /\ calls' = Append(calls,
                    [op |-> "postMessage", channel |-> ChannelId,
                     text |-> [kind |-> "Error occurred while checking schedules"],
                     mentions |-> << >>])
              /\ pc' = "errorNotice"
              /\ UNCHANGED <<relevantSchedules, result, exitCode>>
         [] outcome = "ok" ->
              LET relevant == findRelevantSchedules(schedules, config.productName,
                                                    config.environmentName,
                                                    currentTimeResult.value)
              IN  /\ schedulesResult' = ok(schedules)
                  /\ relevantSchedules' = relevant
                  /\ IF Len(relevant) = 0
                     THEN /\ Return(ok([status |-> "no_schedule",
                                        message |-> <<"No active schedules found">>,
                                        schedules |-> << >>]))
                          /\ UNCHANGED calls
                     ELSE /\ calls' = Append(calls,
                                [op |-> "postMessage", channel |-> ChannelId,
                                 text |-> requestText(relevant, config),
                                 mentions |-> personIds(relevant)])
                          /\ pc' = "requestApproval"
                          /\ UNCHANGED <<result, exitCode>>
    /\ UNCHANGED <<call, ret, messages, runs>>
    /\ UNCHANGED <<config, clock, currentTimeResult, wfa, fetched, pending,
                   approvalResult>>

\* the error notice of the availability-first fallback settles
errorNoticeReturn(outcome) ==
    /\ pc = "errorNotice"
    /\ outcomes' = Append(outcomes, outcome)
    /\ IF outcome = "throw"
       THEN Catch
       ELSE Return(availabilityFirstResult)
    /\ UNCHANGED <<call, ret, messages, runs>>
    /\ UNCHANGED <<config, clock, currentTimeResult, schedulesResult, relevantSchedules, calls, wfa,
                   fetched, pending, approvalResult>>

\* a budget counted down by one poll interval for each fetch made
LoopHead_countdown(now, w, cs) ==
    IF Cardinality({ i \in DOMAIN cs : cs[i].op = "getReactions" }) * w.pollIntervalMs
           < w.timeoutMs
    THEN /\ calls' = Append(cs, [op |-> "getReactions", channel |-> ChannelId,
                                 timestamp |-> w.messageTimestamp])
         /\ pc' = "getReactions"
         /\ UNCHANGED <<approvalResult, result, exitCode>>
    ELSE /\ calls' = cs
         /\ approvalResult' = [status |-> "timeout"]
         /\ Return(ok(releaseCheckResult([status |-> "timeout"], relevantSchedules,
                                         w.waitMinutes)))

\* a loop that still fetches when the whole timeout has elapsed
LoopHead_inclusive(now, w, cs) ==
    IF now - w.startTime <= w.timeoutMs
    THEN /\ calls' = Append(cs, [op |-> "getReactions", channel |-> ChannelId,
                                 timestamp |-> w.messageTimestamp])
         /\ pc' = "getReactions"
         /\ UNCHANGED <<approvalResult, result, exitCode>>
    ELSE /\ calls' = cs
         /\ approvalResult' = [status |-> "timeout"]
         /\ Return(ok(releaseCheckResult([status |-> "timeout"], relevantSchedules,
                                         w.waitMinutes)))

\* a loop that posts the approval request again before every fetch
LoopHead_reminder(now, w, cs) ==
    IF now - w.startTime < w.timeoutMs
    THEN /\ calls' = Append(Append(cs, [op |-> "postMessage", channel |-> ChannelId,
                                        text |-> requestText(relevantSchedules, config),
                                        mentions |-> personIds(relevantSchedules)]),
                            [op |-> "getReactions", channel |-> ChannelId,
                             timestamp |-> w.messageTimestamp])
         /\ pc' = "getReactions"
         /\ UNCHANGED <<approvalResult, result, exitCode>>
    ELSE /\ calls' = cs
         /\ approvalResult' = [status |-> "timeout"]
         /\ Return(ok(releaseCheckResult([status |-> "timeout"], relevantSchedules,
                                         w.waitMinutes)))

\* the head of the polling loop at clock value now, with the calls made so far
LoopHead(now, w, cs) ==
    IF now - w.startTime < w.timeoutMs
    THEN /\ calls' = Append(cs, [op |-> "getReactions", channel |-> ChannelId,
                                 timestamp |-> w.messageTimestamp])
         /\ pc' = "getReactions"
         /\ UNCHANGED <<approvalResult, result, exitCode>>
    ELSE /\ calls' = cs
         /\ approvalResult' = [status |-> "timeout"]
         /\ Return(ok(releaseCheckResult([status |-> "timeout"], relevantSchedules,
                                         w.waitMinutes)))

\* the timeout taken in seconds
waitForApproval_seconds(messageTimestamp, now) ==
    LET waitMinutes == NumOr(config, "waitMinutes", 20)
    IN  [messageTimestamp |-> messageTimestamp,
         excludeUserIds |-> IF StrOr(config, "requesterUserId", "") # ""
                            THEN <<config.requesterUserId>> ELSE << >>,
         approveReaction |-> StrOr(config, "approveReaction", "ok"),
         rejectReaction |-> StrOr(config, "rejectReaction", "-1"),
         waitMinutes |-> waitMinutes,
         pollIntervalMs |-> DefaultPollIntervalMs,
         timeoutMs |-> waitMinutes * 1000,
         startTime |-> now]

\* the arguments checkRelease passes to waitForApproval, and its first lines
waitForApproval(messageTimestamp, now) ==
    LET waitMinutes == NumOr(config, "waitMinutes", 20)
    IN  [messageTimestamp |-> messageTimestamp,
         excludeUserIds |-> IF StrOr(config, "requesterUserId", "") # ""
                            THEN <<config.requesterUserId>> ELSE << >>,
         approveReaction |-> StrOr(config, "approveReaction", "ok"),
         rejectReaction |-> StrOr(config, "rejectReaction", "-1"),
         waitMinutes |-> waitMinutes,
         pollIntervalMs |-> DefaultPollIntervalMs,
         timeoutMs |-> waitMinutes * 60 * 1000,
         startTime |-> now]

\* slack.postMessage of the approval request settles; schedulesResult is not
\* read again
requestApprovalReturn(outcome) ==
    /\ pc = "requestApproval"
    /\ outcomes' = Append(outcomes, outcome)
    /\ CASE outcome = "throw" ->
              /\ Catch
              /\ UNCHANGED <<wfa, calls, approvalResult>>
         [] outcome = "err" ->
              /\ Return(postFailedResult)
              /\ UNCHANGED <<wfa, calls, approvalResult>>
         [] outcome = "ok" ->
              LET w == waitForApproval(MessageTs, clock)
              IN  /\ wfa' = w
                  /\ LoopHead(clock, w, calls)
    /\ schedulesResult' = Undefined
    /\ UNCHANGED <<call, ret, messages, runs>>
    /\ UNCHANGED <<config, clock, currentTimeResult, relevantSchedules, fetched, pending>>

\* a failed reaction fetch that leaves the loop
fetchFailed_break ==
    /\ approvalResult' = [status |-> "timeout"]
    /\ Return(ok(releaseCheckResult([status |-> "timeout"], relevantSchedules,
                                    wfa.waitMinutes)))

\* a failed reaction fetch: warn, sleep one poll interval, continue the loop
fetchFailed ==
    /\ pc' = "sleep"
    /\ UNCHANGED <<approvalResult, result, exitCode>>

\* slack.getReactions settles after latency ms
getReactionsReturn(outcome, reactions, latency) ==
    /\ pc = "getReactions"
    /\ outcomes' = Append(outcomes, outcome)
    /\ clock' = clock + latency
    /\ CASE outcome = "throw" ->
              /\ Catch
              /\ UNCHANGED <<fetched, pending, calls, approvalResult>>
         [] outcome = "err" ->
              /\ fetched' = err("Failed to get reactions")
              /\ fetchFailed
              /\ UNCHANGED <<pending, calls>>
         [] outcome = "ok" ->
              LET d == decide(reactions, wfa)
              IN  /\ fetched' = ok(reactions)
                  /\ pending' = d
                  /\ IF d = Undefined
                     THEN /\ pc' = "sleep"
                          /\ UNCHANGED calls
                     ELSE /\ calls' = Append(calls, [op |-> "getUserInfo",
                                                     userId |-> d.approvers[1]])
                          /\ pc' = "getUserInfo"
                  /\ UNCHANGED <<approvalResult, result, exitCode>>
    /\ UNCHANGED <<call, ret, messages, runs>>
    /\ UNCHANGED <<config, currentTimeResult, schedulesResult, relevantSchedules, wfa>>

\* a promise whose resolve is never called
sleepReturn_neverResolves(late) ==
    /\ pc = "sleep"
    /\ FALSE
    /\ UNCHANGED vars

\* the setTimeout of one poll interval fires, late ms late; the next iteration
\* starts with no reactionsResult
sleepReturn(late) ==
    /\ pc = "sleep"
    /\ UNCHANGED outcomes
    /\ clock' = clock + wfa.pollIntervalMs + late
    /\ fetched' = Undefined
    /\ LoopHead(clock', wfa, calls)
    /\ UNCHANGED <<call, ret, messages, runs>>
    /\ UNCHANGED <<config, currentTimeResult, schedulesResult, relevantSchedules, wfa, pending>>

\* slack.getUserInfo settles after latency ms; the reaction list is not read
\* again once the deciders are taken
getUserInfoReturn(outcome, latency) ==
    /\ pc = "getUserInfo"
    /\ outcomes' = Append(outcomes, outcome)
    /\ clock' = clock + latency
    /\ IF outcome = "throw"
       THEN /\ Catch
            /\ UNCHANGED calls
       ELSE /\ calls' = Append(calls,
                [op |-> "postThreadMessage", channel |-> ChannelId,
                 threadTs |-> wfa.messageTimestamp,
                 text |-> [mark |-> pending.mark, user |-> pending.approvers[1],
                           userName |-> IF outcome = "ok"
                                        THEN <<"name of", pending.approvers[1]>>
                                        ELSE <<"Unknown User">>]])
            /\ pc' = "postThreadMessage"
            /\ UNCHANGED <<result, exitCode>>
    /\ fetched' = Undefined
    /\ UNCHANGED <<call, ret, messages, runs>>
    /\ UNCHANGED <<config, currentTimeResult, schedulesResult, relevantSchedules, wfa, pending,
                   approvalResult>>

\* an approval that is recorded and then polled again until the timeout
postThreadMessageReturn_keepsPolling(outcome, latency) ==
    /\ pc = "postThreadMessage"
    /\ outcomes' = Append(outcomes, outcome)
    /\ clock' = clock + latency
    /\ IF outcome = "throw"
       THEN /\ Catch
            /\ UNCHANGED approvalResult
       ELSE IF pending.status = "approved"
       THEN /\ pc' = "sleep"
            /\ UNCHANGED <<approvalResult, result, exitCode>>
       ELSE LET ar == [status |-> pending.status, approvers |-> pending.approvers]
            IN  /\ approvalResult' = ar
                /\ Return(ok(releaseCheckResult(ar, relevantSchedules, wfa.waitMinutes)))
    /\ UNCHANGED <<call, ret, messages, runs>>
    /\ UNCHANGED <<config, currentTimeResult, schedulesResult, relevantSchedules, calls, wfa,
                   fetched, pending>>

\* a thread reply whose failure fails the run
postThreadMessageReturn_strict(outcome, latency) ==
    /\ pc = "postThreadMessage"
    /\ outcomes' = Append(outcomes, outcome)
    /\ clock' = clock + latency
    /\ IF outcome # "ok"
       THEN /\ Catch
            /\ UNCHANGED approvalResult
       ELSE LET ar == [status |-> pending.status, approvers |-> pending.approvers]
            IN  /\ approvalResult' = ar
                /\ Return(ok(releaseCheckResult(ar, relevantSchedules, wfa.waitMinutes)))
    /\ UNCHANGED <<call, ret, messages, runs>>
    /\ UNCHANGED <<config, currentTimeResult, schedulesResult, relevantSchedules, calls, wfa,
                   fetched, pending>>

\* slack.postThreadMessage settles after latency ms; waitForApproval returns
postThreadMessageReturn(outcome, latency) ==
    /\ pc = "postThreadMessage"
    /\ outcomes' = Append(outcomes, outcome)
    /\ clock' = clock + latency
    /\ IF outcome = "throw"
       THEN /\ Catch
            /\ UNCHANGED approvalResult
       ELSE LET ar == [status |-> pending.status, approvers |-> pending.approvers]
            IN  /\ approvalResult' = ar
                /\ Return(ok(releaseCheckResult(ar, relevantSchedules, wfa.waitMinutes)))
    /\ UNCHANGED <<call, ret, messages, runs>>
    /\ UNCHANGED <<config, currentTimeResult, schedulesResult, relevantSchedules, calls, wfa, fetched,
                   pending>>

Failures == {"err", "throw"}
Outcomes == {"ok"} \cup Failures
Latencies == {0, SlowMs}

Next ==
    \/ pc = "main" /\ checkRelease
    \/ pc = "fetchSchedules" /\ \E ss \in ScheduleLists : fetchSchedulesReturn("ok", ss)
    \/ pc = "fetchSchedules" /\ \E o \in Failures : fetchSchedulesReturn(o, << >>)
    \/ pc = "errorNotice" /\ \E o \in Outcomes : errorNoticeReturn(o)
    \/ pc = "requestApproval" /\ \E o \in Outcomes : requestApprovalReturn(o)
    \/ pc = "getReactions" /\ \E rs \in ReactionLists, l \in Latencies :
                                  getReactionsReturn("ok", rs, l)
    \/ pc = "getReactions" /\ \E o \in Failures, l \in Latencies :
                                  getReactionsReturn(o, << >>, l)
    \/ pc = "sleep" /\ sleepReturn(0)
    \/ pc = "getUserInfo" /\ \E o \in Outcomes : getUserInfoReturn(o, 0)
    \/ pc = "postThreadMessage" /\ \E o \in Outcomes : postThreadMessageReturn(o, 0)

Spec == Init /\ [][Next]_vars

\* a pending getReactions call settles; each settlement, whatever its outcome,
\* leaves the position, so this step is enabled exactly while the call is pending
getReactionsSettles == \E o \in Failures : getReactionsReturn(o, << >>, 0)

\* every await settles: a pending call returns, with any outcome, and a timer
\* fires; no outcome is favoured, a call is only kept from pending for ever
FairSpec ==
    /\ Spec
    /\ WF_vars(pc # "getReactions" /\ Next)
    /\ WF_vars(getReactionsSettles)

-----------------------------------------------------------------------------
(* The utility functions applied on their own *)

Instants == 0..MaxInstant

\* every range over the instants: proper, empty and inverted ones
Windows == Instants \X Instants

UtilSched(p, e, w) == Sched(p, e, w[1], w[2], "U_AAA")

ActiveInputs == { UtilSched("app", "staging", w) : w \in Windows }

OverlapInputs == { UtilSched("app", e, w) : e \in {"staging", "prod"}, w \in Windows }

\* schedules of the requested and of other products and environments, whose
\* range spans the instants, is empty, or is inverted
RelevantInputs ==
    { UtilSched(p, e, w) : p \in {"app", "App"}, e \in {"staging", "prod"},
                           w \in { <<0, MaxInstant>>, <<1, 1>>, <<MaxInstant, 0>> } }

\* wall clock times typed into the sheet, and instants the check runs at
WallClocks == { Hour(9), Hour(10), Hour(19), Hour(20) }
Nows == { Hour(1), Hour(10) }

\* the UTC offset of the host process, in minutes: a CI runner in UTC, a
\* machine in Asia/Tokyo, one in America/New_York
HostOffsets == { 0, 9 * 60, -5 * 60 }

\* the digits of n, padded with zeros to width characters
numeral(n, width) ==
    [i \in 1..width |->
        <<"0", "1", "2", "3", "4", "5", "6", "7", "8", "9">>[((n \div 10^(width - i)) % 10) + 1]]

\* a date and time as it is typed into a cell, piece by piece
Typed(year, month, day, hour, minute, second) ==
    [lead |-> << >>, year |-> year, sep1 |-> <<"/">>, month |-> month, sep2 |-> <<"/">>,
     day |-> day, space |-> <<" ">>, hour |-> hour, sep3 |-> <<":">>, minute |-> minute,
     sep4 |-> IF second = << >> THEN << >> ELSE <<":">>, second |-> second,
     trail |-> << >>]

textOf(w) ==
    w.lead \o w.year \o w.sep1 \o w.month \o w.sep2 \o w.day \o w.space \o w.hour
        \o w.sep3 \o w.minute \o w.sep4 \o w.second \o w.trail

\* dates and times in the pattern: a leap year, a common year and a year below
\* 100; months, days, hours, minutes and seconds at and past the ends of their
\* ranges, the ends of February among them; with and without seconds
PatternTexts ==
    { Typed(numeral(y, 4), numeral(mo, 2), numeral(d, 2), numeral(h, 2), numeral(mi, 2), sec) :
        y \in {2024, 2025, 99}, mo \in {0, 2, 3, 4, 12, 13},
        d \in {0, 9, 28, 29, 30, 31, 32}, h \in {0, 2, 23, 24}, mi \in {0, 59, 60},
        sec \in {<< >>, numeral(0, 2), numeral(59, 2), numeral(60, 2)} }

OneDateTime == Typed(numeral(2025, 4), numeral(6, 2), numeral(23, 2), numeral(20, 2),
                     numeral(0, 2), << >>)

\* one date and time written in other shapes: components of one digit and of
\* too many or too few, other separators and orderings, text around it
ShapedTexts ==
    { Typed(numeral(2025, 4), numeral(6, 1), numeral(3, 1), numeral(9, 1), numeral(5, 1),
            numeral(7, 1)) }
    \cup { [OneDateTime EXCEPT !.year = y] :
             y \in {<< >>, numeral(25, 2), numeral(25, 3), numeral(2025, 5)} }
    \cup { [OneDateTime EXCEPT !.month = n] : n \in {<< >>, numeral(6, 3)} }
    \cup { [OneDateTime EXCEPT !.minute = n] : n \in {<< >>, numeral(0, 3)} }
    \cup { [OneDateTime EXCEPT !.sep4 = <<":">>, !.second = n] :
             n \in {<< >>, numeral(30, 2), numeral(30, 3)} }
    \cup { [OneDateTime EXCEPT !.sep1 = <<"-">>, !.sep2 = <<"-">>],
           [OneDateTime EXCEPT !.sep3 = <<".">>],
           [OneDateTime EXCEPT !.sep3 = << >>],
           [OneDateTime EXCEPT !.year = numeral(23, 2), !.day = numeral(2025, 4)] }
    \cup { [OneDateTime EXCEPT !.space = x] :
             x \in {<< >>, <<" ", " ">>, <<"\t">>, <<"T">>} }
    \cup { [OneDateTime EXCEPT !.lead = x] : x \in {<<" ">>, <<"x">>} }
    \cup { [OneDateTime EXCEPT !.trail = x] : x \in {<<" ">>, <<"Z">>, <<":">>} }
    \cup { [Typed(<< >>, << >>, << >>, << >>, << >>, << >>) EXCEPT
              !.sep1 = << >>, !.sep2 = << >>, !.space = x, !.sep3 = << >>] :
             x \in {<< >>, <<" ">>, <<" ", "\t">>} }

TypedTexts == PatternTexts \cup ShapedTexts

\* cells of a row: the start and end columns, well and badly written
DateCells ==
    { textOf(OneDateTime),
      textOf(Typed(numeral(2025, 4), numeral(6, 2), numeral(23, 2), numeral(22, 2),
                   numeral(30, 2), numeral(0, 2))),
      textOf([OneDateTime EXCEPT !.month = numeral(13, 2)]),
      textOf([OneDateTime EXCEPT !.sep1 = <<"-">>, !.sep2 = <<"-">>]),
      << >> }

\* identifiers of 0, 2, 3 and 9 characters
IdCells == { << >>, <<"U", "1">>, <<"U", "1", "2">>,
             <<"U", "0", "1", "2", "3", "4", "5", "6", "7">> }

FullRows ==
    { <<"app", "staging", start, end, id, "bun913", "Release work">> :
        start \in DateCells, end \in DateCells, id \in IdCells }

\* rows of seven cells, rows that lack the last one, rows with one more, and
\* the empty row
Rows ==
    FullRows
    \cup { SubSeq(row, 1, 6) : row \in FullRows }
    \cup { row \o <<"H">> : row \in FullRows }
    \cup { << >> }

HeaderRow == <<"Product", "Environment", <<"S", "t", "a", "r", "t">>, <<"E", "n", "d">>,
               <<"P", "e", "r", "s", "o", "n">>, "Name", "Remarks">>

ValidRow(product, start) ==
    <<product, "staging", textOf([OneDateTime EXCEPT !.hour = start]),
      textOf([OneDateTime EXCEPT !.hour = numeral(23, 2)]), <<"U", "1", "2">>, "bun913", "">>

\* rows of a sheet: the header, two valid rows, and rows that fail a check of
\* validateScheduleRow: a start at 24:00, an identifier of two characters, six
\* cells
SheetRows ==
    { HeaderRow,
      ValidRow("app", numeral(20, 2)),
      ValidRow("api", numeral(21, 2)),
      ValidRow("app", numeral(24, 2)),
      <<"app", "staging", textOf(OneDateTime), textOf(OneDateTime), <<"U", "1">>, "bun913", "">>,
      <<"app", "staging", textOf(OneDateTime), textOf(OneDateTime), <<"U", "1", "2">>, "bun913">> }

\* what api.getValues settles with: a sheet of up to MaxSchedules + 1 rows,
\* or a rejection
Sheets ==
    { ok(rows) : rows \in SeqsUpTo(SheetRows, MaxSchedules + 1) }
    \cup { err("The caller does not have permission") }

\* configs with fields that are provided and falsy
UtilConfigs ==
    Configs \cup
    { Required,
      Required @@ [waitMinutes |-> 0],
      Required @@ [waitMinutes |-> 30, approveReaction |-> "", rejectReaction |-> "",
                   timezone |-> ""] }

\* the well written cells of a row, and where the current time lies in
\* relation to the two instants written in it
WrittenCells ==
    { textOf(OneDateTime),
      textOf(Typed(numeral(2025, 4), numeral(6, 2), numeral(23, 2), numeral(22, 2),
                   numeral(30, 2), numeral(0, 2))) }

Moments == {"before", "start", "between", "end", "after"}

moment(at, start, end) ==
    LET first == IF start <= end THEN start ELSE end
        last == IF start <= end THEN end ELSE start
    IN  CASE at = "before" -> first - 1
          [] at = "start" -> start
          [] at = "between" -> first + (last - first) \div 2
          [] at = "end" -> end
          [] at = "after" -> last + 1

Calls ==
    [fn : {"isWithinTimeRange"}, current : Instants, start : Instants, end : Instants]
    \cup [fn : {"findActiveSchedules"},
          schedules : SeqsUpTo(ActiveInputs, MaxSchedules), current : Instants]
    \cup [fn : {"findOverlappingSchedules"},
          schedules : SeqsUpTo(OverlapInputs, MaxSchedules)]
    \cup [fn : {"getScheduleStatus"}, schedule : ActiveInputs, currentTime : Instants]
    \cup [fn : {"parseDateTime"}, typed : TypedTexts, hostOffset : HostOffsets]
    \cup [fn : {"validateScheduleRow"}, row : Rows, hostOffset : HostOffsets]
    \cup [fn : {"fetchSchedules"}, getValues : Sheets, hostOffset : HostOffsets]
    \cup [fn : {"findRelevantSchedules"},
          schedules : SeqsUpTo(RelevantInputs, MaxSchedules),
          productName : {"app"}, environmentName : {"staging"}, current : Instants]
    \cup [fn : {"isScheduleRowActive"}, start : WallClocks, end : WallClocks,
          hostOffset : HostOffsets, timezone : ValidTimezones, now : Nows]
    \cup [fn : {"checkRelease"}]
    \cup [fn : {"requestApproval"}]
    \cup [fn : {"scheduleRowRequested"}, start : WrittenCells, end : WrittenCells,
          hostOffset : HostOffsets, at : Moments]

run == <<clock, pc, currentTimeResult, schedulesResult, relevantSchedules, calls,
         outcomes, wfa, fetched, pending, approvalResult, result, exitCode>>

UtilInit ==
    /\ call \in Calls
    /\ ret = Undefined
    /\ config \in (IF call.fn \in {"checkRelease", "requestApproval"}
                    THEN UtilConfigs ELSE {Required})
    /\ clock = Clock0
    /\ pc = "main"
    /\ currentTimeResult = Undefined
    /\ schedulesResult = Undefined
    /\ relevantSchedules = << >>
    /\ calls = << >>
    /\ outcomes = << >>
    /\ wfa = Undefined
    /\ fetched = Undefined
    /\ pending = Undefined
    /\ approvalResult = Undefined
    /\ result = Undefined
    /\ exitCode = Undefined
    /\ messages = << >>
    /\ runs = << >>

\* the function applied returns value
Returns(value) ==
    /\ ret = Undefined
    /\ ret' = [value |-> value]
    /\ UNCHANGED <<call, config, run, messages, runs>>

isWithinTimeRangeCall ==
    /\ call.fn = "isWithinTimeRange"
    /\ Returns(isWithinTimeRange(call.current, call.start, call.end))

findActiveSchedulesCall ==
    /\ call.fn = "findActiveSchedules"
    /\ Returns(findActiveSchedules(call.schedules, call.current))

findOverlappingSchedulesCall ==
    /\ call.fn = "findOverlappingSchedules"
    /\ Returns(findOverlappingSchedules(call.schedules))

getScheduleStatusCall ==
    /\ call.fn = "getScheduleStatus"
    /\ Returns(getScheduleStatus(call.schedule, call.currentTime))

findRelevantSchedulesCall ==
    /\ call.fn = "findRelevantSchedules"
    /\ Returns(findRelevantSchedules(call.schedules, call.productName,
                                     call.environmentName, call.current))

parseDateTimeCall ==
    /\ call.fn = "parseDateTime"
    /\ Returns(parseDateTime(textOf(call.typed), call.hostOffset))

validateScheduleRowCall ==
    /\ call.fn = "validateScheduleRow"
    /\ Returns(validateScheduleRow(call.row, call.hostOffset))

fetchSchedulesCall ==
    /\ call.fn = "fetchSchedules"
    /\ Returns(fetchSchedules(call.getValues, call.hostOffset))

\* one row of the sheet from parseDateTime to findRelevantSchedules: its start
\* and end are built by the host's Date constructor, the current time comes
\* from getCurrentDateTime in the configured zone
isScheduleRowActive ==
    /\ call.fn = "isScheduleRowActive"
    /\ LET schedule == Sched("app", "staging",
                             localDate(call.start, call.hostOffset),
                             localDate(call.end, call.hostOffset), "U_AAA")
           currentTime == getCurrentDateTime(call.timezone, call.now).value
       IN  Returns(findRelevantSchedules(<<schedule>>, "app", "staging", currentTime)
                       # << >>)

\* the first lines of checkRelease and the arguments it polls with
checkReleaseDefaults ==
    /\ call.fn = "checkRelease"
    /\ Returns([timezone |-> StrOr(config, "timezone", "Asia/Tokyo")]
                   @@ waitForApproval(MessageTs, clock))

\* the message requestApproval writes for a config, and the arguments
\* checkRelease polls with after it
requestApprovalCall ==
    /\ call.fn = "requestApproval"
    /\ Returns([text |-> requestText(<<Active9to20>>, config),
                polling |-> waitForApproval(MessageTs, clock)])

\* one row of the sheet from validateScheduleRow to the branch of checkRelease
\* that posts the approval request
requestedFor(rowResult, at) ==
    LET schedule == rowResult.value
        current == moment(at, schedule.startDateTime, schedule.endDateTime)
        relevantSchedules_ == findRelevantSchedules(<<schedule>>, "app", "staging", current)
    IN  [row |-> rowResult,
         current |-> current,
         active |-> findActiveSchedules(<<schedule>>, current),
         relevant |-> relevantSchedules_,
         requested |-> relevantSchedules_ # << >>]

scheduleRowRequested ==
    /\ call.fn = "scheduleRowRequested"
    /\ Returns(requestedFor(
           validateScheduleRow(<<"app", "staging", call.start, call.end,
                                 <<"U", "1", "2">>, "bun913", "">>, call.hostOffset),
           call.at))

UtilNext ==
    \/ isWithinTimeRangeCall
    \/ findActiveSchedulesCall
    \/ findOverlappingSchedulesCall
    \/ getScheduleStatusCall
    \/ findRelevantSchedulesCall
    \/ isScheduleRowActive
    \/ parseDateTimeCall
    \/ validateScheduleRowCall
    \/ fetchSchedulesCall
    \/ checkReleaseDefaults
    \/ requestApprovalCall
    \/ scheduleRowRequested

UtilSpec == UtilInit /\ [][UtilNext]_vars

-----------------------------------------------------------------------------
(* Two runs of checkRelease at once, for the same product and environment,  *)
(* in two processes that share the sheet and the Slack channel and nothing  *)
(* else. Each run steps at its awaits; the runs interleave in every order.  *)
(* Time is left out: a sleep ends before or after the deadline.             *)

Runs == {1, 2}

\* what the users of the channel put on a message
ChannelReactions ==
    { << >>,
      << [name |-> "ok", users |-> <<"U_AAA">>] >>,
      << [name |-> "-1", users |-> <<"U_BBB">>] >>,
      << [name |-> "ok", users |-> <<Requester>>] >> }

\* chat.postMessage: Slack appends the message to the channel and returns its
\* timestamp, which no other message of the channel has
posted(text, thread) ==
    Append(messages, [ts |-> Len(messages) + 1, text |-> text, thread_ts |-> thread,
                      reactions |-> << >>])

\* reactions.get reading the latest message of the channel
getReactions_latestMessage(channel, timestamp) == messages[Len(messages)].reactions

\* reactions.get: the reactions of the message of the channel with the timestamp
getReactions(channel, timestamp) ==
    LET i == CHOOSE k \in DOMAIN messages : messages[k].ts = timestamp
    IN  messages[i].reactions

RunInit ==
    /\ config = Required @@ [waitMinutes |-> 1, requesterUserId |-> Requester]
    /\ messages = << >>
    /\ runs = [r \in Runs |-> [pc |-> "main", relevantSchedules |-> << >>,
                               wfa |-> Undefined, pending |-> Undefined,
                               result |-> Undefined]]
    /\ clock = Clock0
    /\ pc = "main"
    /\ currentTimeResult = Undefined
    /\ schedulesResult = Undefined
    /\ relevantSchedules = << >>
    /\ calls = << >>
    /\ outcomes = << >>
    /\ wfa = Undefined
    /\ fetched = Undefined
    /\ pending = Undefined
    /\ approvalResult = Undefined
    /\ result = Undefined
    /\ exitCode = Undefined
    /\ call = Undefined
    /\ ret = Undefined

\* run r resolves to value
runReturn(r, value) ==
    runs' = [runs EXCEPT ![r].pc = "returned", ![r].result = value]

\* checkRelease of run r up to its first await
runCheckRelease(r) ==
    /\ runs[r].pc = "main"
    /\ runs' = [runs EXCEPT ![r].pc = "fetchSchedules"]
    /\ UNCHANGED <<config, run, call, ret, messages>>

\* the sheet, the same for both runs, holds a row that is active: run r posts
\* its approval request
runFetchSchedulesReturn(r) ==
    /\ runs[r].pc = "fetchSchedules"
    /\ LET relevant == findRelevantSchedules(<<Active9to20>>, config.productName,
                                             config.environmentName,
                                             getCurrentDateTime("Asia/Tokyo", clock).value)
       IN  runs' = [runs EXCEPT ![r].pc = "requestApproval",
                                ![r].relevantSchedules = relevant]
    /\ UNCHANGED <<config, run, call, ret, messages>>

\* slack.postMessage of run r settles: with the timestamp of the message
\* posted, or with a failure
runRequestApprovalReturn(r, outcome) ==
    /\ runs[r].pc = "requestApproval"
    /\ IF outcome = "ok"
       THEN /\ messages' = posted(requestText(runs[r].relevantSchedules, config), Undefined)
            /\ runs' = [runs EXCEPT
                          ![r].pc = "getReactions",
                          ![r].wfa = waitForApproval(messages'[Len(messages')].ts, clock)]
       ELSE /\ runReturn(r, IF outcome = "throw" THEN err("Release check failed")
                            ELSE postFailedResult)
            /\ UNCHANGED messages
    /\ UNCHANGED <<config, run, call, ret>>

\* slack.getReactions of run r settles
runGetReactionsReturn(r, outcome) ==
    /\ runs[r].pc = "getReactions"
    /\ CASE outcome = "throw" -> runReturn(r, err("Release check failed"))
         [] outcome = "err" -> runs' = [runs EXCEPT ![r].pc = "sleep"]
         [] outcome = "ok" ->
              LET d == decide(getReactions(ChannelId, runs[r].wfa.messageTimestamp),
                              runs[r].wfa)
              IN  runs' = [runs EXCEPT
                             ![r].pending = d,
                             ![r].pc = IF d = Undefined THEN "sleep" ELSE "getUserInfo"]
    /\ UNCHANGED <<config, run, call, ret, messages>>

\* the sleep of run r ends: the loop goes on, or the deadline has passed
runSleepReturn(r, expired) ==
    /\ runs[r].pc = "sleep"
    /\ IF expired
       THEN runReturn(r, ok(releaseCheckResult([status |-> "timeout"],
                                               runs[r].relevantSchedules,
                                               runs[r].wfa.waitMinutes)))
       ELSE runs' = [runs EXCEPT ![r].pc = "getReactions"]
    /\ UNCHANGED <<config, run, call, ret, messages>>

\* slack.getUserInfo of run r settles
runGetUserInfoReturn(r, outcome) ==
    /\ runs[r].pc = "getUserInfo"
    /\ IF outcome = "throw"
       THEN runReturn(r, err("Release check failed"))
       ELSE runs' = [runs EXCEPT ![r].pc = "postThreadMessage"]
    /\ UNCHANGED <<config, run, call, ret, messages>>

\* slack.postThreadMessage of run r settles: the reply is a message of the
\* channel in the thread of the run's request; waitForApproval returns
runPostThreadMessageReturn(r, outcome) ==
    /\ runs[r].pc = "postThreadMessage"
    /\ IF outcome = "ok"
       THEN messages' = posted([mark |-> runs[r].pending.mark,
                                user |-> runs[r].pending.approvers[1]],
                               runs[r].wfa.messageTimestamp)
       ELSE UNCHANGED messages
    /\ IF outcome = "throw"
       THEN runReturn(r, err("Release check failed"))
       ELSE runReturn(r, ok(releaseCheckResult(
                [status |-> runs[r].pending.status, approvers |-> runs[r].pending.approvers],
                runs[r].relevantSchedules, runs[r].wfa.waitMinutes)))
    /\ UNCHANGED <<config, run, call, ret>>

\* the users of the channel change the reactions of one of its messages
react(i, reactions) ==
    /\ i \in DOMAIN messages
    /\ messages[i].reactions # reactions
    /\ messages' = [messages EXCEPT ![i].reactions = reactions]
    /\ UNCHANGED <<config, run, call, ret, runs>>

RunNext ==
    \/ \E r \in Runs : runCheckRelease(r)
    \/ \E r \in Runs : runFetchSchedulesReturn(r)
    \/ \E r \in Runs, outcome \in {"ok", "err", "throw"} : runRequestApprovalReturn(r, outcome)
    \/ \E r \in Runs, outcome \in {"ok", "err", "throw"} : runGetReactionsReturn(r, outcome)
    \/ \E r \in Runs, expired \in BOOLEAN : runSleepReturn(r, expired)
    \/ \E r \in Runs, outcome \in {"ok", "err", "throw"} : runGetUserInfoReturn(r, outcome)
    \/ \E r \in Runs, outcome \in {"ok", "err", "throw"} : runPostThreadMessageReturn(r, outcome)
    \/ \E i \in 1..4, reactions \in ChannelReactions : react(i, reactions)

RunSpec == RunInit /\ [][RunNext]_vars

-----------------------------------------------------------------------------
(* Vocabulary of the properties *)

\* the calls of one capability operation made so far
Made(op) == { i \in DOMAIN calls : calls[i].op = op }

IsErrorNotice(c) ==
    c.op = "postMessage" /\ c.text.kind = "Error occurred while checking schedules"
IsApprovalRequest(c) == c.op = "postMessage" /\ c.text.kind = "Release Request"

\* call i has settled with outcome o
Settled(i, o) == i <= Len(outcomes) /\ outcomes[i] = o

Threw == \E i \in DOMAIN outcomes : outcomes[i] = "throw"

\* fetchSchedules, always the first call, returned a failure Result
SheetsFailed == Settled(1, "err")

\* the approval request, always the second call, was posted
RequestPosted == 2 \in DOMAIN calls /\ IsApprovalRequest(calls[2])

\* checkRelease resolved to a success Result with this status
Resolved(status) == result # Undefined /\ result.ok /\ result.value.status = status

\* a reaction named token on which some user outside excluded reacted
Counted(reactions, token, excluded) ==
    \E i \in DOMAIN reactions :
        /\ reactions[i].name = token
        /\ \E k \in DOMAIN reactions[i].users :
              \A x \in DOMAIN excluded : excluded[x] # reactions[i].users[k]

\* the tick in progress fetched a reaction list
FetchedOk == fetched # Undefined /\ fetched.ok

CountedReject == Counted(fetched.value, wfa.rejectReaction, wfa.excludeUserIds)
CountedApprove == Counted(fetched.value, wfa.approveReaction, wfa.excludeUserIds)

\* waitForApproval returned
Returned == approvalResult # Undefined

-----------------------------------------------------------------------------
(* C1  Availability-first fallback: when fetchSchedules returns a failure   *)
(* Result, checkRelease resolves to a success Result with status approved   *)
(* as soon as the error notice settles, whether the notice was posted or    *)
(* postMessage returned a failure; the run posts no approval request,       *)
(* fetches no reactions and posts no thread reply.                          *)

C1_AvailabilityFirst ==
    SheetsFailed =>
        /\ \A i \in DOMAIN calls :
              /\ ~IsApprovalRequest(calls[i])
              /\ calls[i].op \notin {"getReactions", "getUserInfo", "postThreadMessage"}
        /\ Made("postMessage") = {2} /\ IsErrorNotice(calls[2])
        /\ (Settled(2, "ok") \/ Settled(2, "err")) =>
              /\ pc = "exited"
              /\ Resolved("approved")
              /\ Len(calls) = 2

\* the notice could not be posted and the release is approved all the same
C1_Witness == SheetsFailed /\ Settled(2, "err") /\ Resolved("approved")

-----------------------------------------------------------------------------
\* The decision a tick took is the value waitForApproval returns, and it is
\* returned unless recording it threw.
DecisionReturned ==
    /\ (Returned /\ pending # Undefined) =>
          approvalResult = [status |-> pending.status, approvers |-> pending.approvers]
    /\ (pc = "exited" /\ pending # Undefined /\ ~Threw) => Returned

(* C2  Rejection precedence: a successfully fetched reaction list that      *)
(* holds a counted reject reaction and a counted approve reaction, in       *)
(* either order, is decided as rejected in that tick, and rejected is what  *)
(* waitForApproval returns.                                                 *)

C2_RejectionPrecedence ==
    /\ (FetchedOk /\ CountedReject /\ CountedApprove) =>
          /\ pc = "getUserInfo"
          /\ pending # Undefined
          /\ pending.status = "rejected"
    /\ (Returned /\ pending # Undefined) => approvalResult.status = pending.status
    /\ (Returned /\ approvalResult.status = "approved") => pending # Undefined

\* the approve reaction is listed before the reject reaction
C2_Witness ==
    /\ FetchedOk /\ Len(fetched.value) = 2
    /\ fetched.value[1].name = wfa.approveReaction
    /\ fetched.value[2].name = wfa.rejectReaction
    /\ CountedReject /\ CountedApprove
    /\ pending # Undefined /\ pending.status = "rejected"

(* C3  Requester exclusion: a fetched list decides if and only if its       *)
(* approve or reject reaction has a user outside excludeUserIds; a list     *)
(* whose approve and reject reactions carry excluded users only sends the   *)
(* loop to sleep, and a run in which no tick decided ends with timeout.     *)

C3_RequesterExclusion ==
    /\ FetchedOk =>
          IF CountedReject \/ CountedApprove
          THEN pc = "getUserInfo" /\ pending # Undefined
          ELSE pc = "sleep" /\ pending = Undefined /\ ~Returned
    /\ (pc = "exited" /\ wfa # Undefined /\ ~Threw /\ pending = Undefined) =>
          Returned /\ approvalResult.status = "timeout"

\* the requester alone put the approve reaction: the loop goes to sleep
C3_Witness ==
    /\ FetchedOk /\ pc = "sleep"
    /\ wfa.excludeUserIds = <<Requester>>
    /\ fetched.value = <<[name |-> wfa.approveReaction, users |-> <<Requester>>]>>

(* C4  One approval suffices and anyone may give it: when a fetched list    *)
(* holds no counted reject reaction, every non-excluded user on an approve  *)
(* reaction makes the tick decide approved with that user among the         *)
(* approvers, whoever the persons in charge are; that decision is what      *)
(* waitForApproval returns.                                                 *)

C4_OneApprovalSuffices ==
    /\ (FetchedOk /\ ~CountedReject) =>
          \A i \in DOMAIN fetched.value : \A k \in DOMAIN fetched.value[i].users :
              ( /\ fetched.value[i].name = wfa.approveReaction
                /\ ~includes(wfa.excludeUserIds, fetched.value[i].users[k]) ) =>
                  /\ pc = "getUserInfo"
                  /\ pending # Undefined
                  /\ pending.status = "approved"
                  /\ includes(pending.approvers, fetched.value[i].users[k])
    /\ DecisionReturned

\* one user who is no person in charge of the matched schedule approved
C4_Witness ==
    /\ Returned
    /\ approvalResult = [status |-> "approved", approvers |-> <<"U_AAA">>]
    /\ \A i \in DOMAIN relevantSchedules : relevantSchedules[i].personInChargeId # "U_AAA"

(* C5  Timeout outcome: waitForApproval returns timeout exactly when no     *)
(* tick decided, a tick decides only on a counted reaction, the timeout     *)
(* result has no approvers field, and at the return the clock is at least   *)
(* waitMinutes * 60000 ms past the recorded start time.                     *)

C5_TimeoutOutcome ==
    /\ (Returned /\ approvalResult.status = "timeout") =>
          /\ "approvers" \notin DOMAIN approvalResult
          /\ pending = Undefined
          /\ clock - wfa.startTime >= wfa.waitMinutes * 60000
    /\ (pc = "exited" /\ wfa # Undefined /\ ~Threw /\ pending = Undefined) =>
          Returned /\ approvalResult.status = "timeout"
    /\ (FetchedOk /\ pending # Undefined) => (CountedReject \/ CountedApprove)

\* four fetches succeeded, none with a counted reaction
C5_Witness ==
    /\ Returned /\ approvalResult.status = "timeout"
    /\ Cardinality(Made("getReactions")) = 4
    /\ \A i \in DOMAIN outcomes : outcomes[i] = "ok"

(* C6  A failed reaction fetch neither ends the poll nor decides: after a   *)
(* getReactions failure the loop is asleep with no decision and no result;  *)
(* the next step is one poll interval later and fetches again if the        *)
(* elapsed time is below the timeout, and returns timeout otherwise; a      *)
(* counted reaction fetched after a failure decides; a run whose fetches    *)
(* all failed ends with timeout.                                            *)

FetchErr == fetched # Undefined /\ ~fetched.ok

SomeFetchFailed == \E i \in Made("getReactions") : Settled(i, "err")

C6_FailedFetchContinues ==
    /\ [](FetchErr => (pc = "sleep" /\ pending = Undefined /\ ~Returned /\ result = Undefined))
    /\ []((FetchedOk /\ SomeFetchFailed /\ (CountedReject \/ CountedApprove)) =>
             (pc = "getUserInfo" /\ pending # Undefined))
    /\ []((pc = "exited" /\ wfa # Undefined
            /\ \A i \in Made("getReactions") : Settled(i, "err")) =>
             (Returned /\ approvalResult.status = "timeout"))
    /\ [][FetchErr =>
            /\ clock' = clock + 15 * 1000
            /\ IF clock' - wfa.startTime < wfa.waitMinutes * 60000
               THEN /\ pc' = "getReactions"
                    /\ Made("getReactions")' = Made("getReactions") \cup {Len(calls) + 1}
                    /\ approvalResult' = Undefined
               ELSE approvalResult' = [status |-> "timeout"]]_vars

\* a fetch failed and a later fetch was decided as approved
C6_Witness == Returned /\ approvalResult.status = "approved" /\ SomeFetchFailed

(* C7  The polling state machine terminates: when every call settles and    *)
(* every sleep ends, a started poll reaches a return with status approved,  *)
(* rejected or timeout unless a capability call throws; once it returned,   *)
(* no call is in flight and no further call is made.                        *)

C7_PollingTerminates ==
    /\ [](Returned =>
             /\ approvalResult.status \in {"approved", "rejected", "timeout"}
             /\ pc = "exited"
             /\ Len(outcomes) = Len(calls))
    /\ [][Returned => UNCHANGED <<calls, approvalResult>>]_vars
    /\ (wfa # Undefined) ~> (Returned \/ Threw)

\* a poll that saw a failed fetch, slept and was then decided
C7_Witness ==
    /\ Returned /\ approvalResult.status = "rejected"
    /\ SomeFetchFailed
    /\ Cardinality(Made("getReactions")) = 3

(* C8  No matching schedule: when fetchSchedules succeeded and no fetched   *)
(* schedule has the configured product and environment and a window         *)
(* [start, end) holding the current time, checkRelease has resolved to      *)
(* ok/no_schedule with an empty schedules list and fetchSchedules is the    *)
(* only capability call made: no postMessage, getReactions, getUserInfo     *)
(* or postThreadMessage.                                                    *)

Matches(s) ==
    /\ s.productName = config.productName
    /\ s.environmentName = config.environmentName
    /\ s.startDateTime <= currentTimeResult.value
    /\ currentTimeResult.value < s.endDateTime

NoMatch ==
    /\ schedulesResult # Undefined
    /\ schedulesResult.ok
    /\ \A i \in DOMAIN schedulesResult.value : ~Matches(schedulesResult.value[i])

C8_NoScheduleNoMessage ==
    NoMatch =>
        /\ pc = "exited"
        /\ Resolved("no_schedule")
        /\ result.value.schedules = << >>
        /\ \A i \in DOMAIN calls : calls[i].op = "fetchSchedules"

\* schedules of the product and environment were fetched, one of them ending
\* at the current time, and none matched
C8_Witness ==
    /\ NoMatch
    /\ \E i \in DOMAIN schedulesResult.value :
          LET s == schedulesResult.value[i]
          IN  /\ s.productName = config.productName
              /\ s.environmentName = config.environmentName
              /\ s.endDateTime = currentTimeResult.value
    /\ pc = "exited"

(* C9  A failed approval request is fatal: when relevant schedules exist    *)
(* and the postMessage of the approval request returns a failure Result,    *)
(* checkRelease has resolved to an error Result, waitForApproval was never  *)
(* started and no call follows the failed post.                             *)

RequestPostFailed == RequestPosted /\ Settled(2, "err")

C9_PostFailureIsFatal ==
    RequestPostFailed =>
        /\ Len(relevantSchedules) > 0
        /\ pc = "exited"
        /\ result # Undefined /\ ~result.ok
        /\ wfa = Undefined /\ ~Returned
        /\ Len(calls) = 2
        /\ Made("getReactions") \cup Made("getUserInfo") \cup Made("postThreadMessage") = {}

C9_Witness == RequestPostFailed /\ Len(relevantSchedules) = 2 /\ pc = "exited"

(* C10  Every error of the initial phase lets CI continue: when the         *)
(* spreadsheet fetch or the post of the approval request returned a         *)
(* failure and no call threw, the process exits with code 0.                *)

C10_InitialErrorsExitZero ==
    (pc = "exited" /\ ~Threw /\ (SheetsFailed \/ RequestPostFailed)) => exitCode.code = 0

(* C11  Exit-code mapping: the process exits exactly when checkRelease has  *)
(* resolved; the code is 0 exactly when the Result is a success with status *)
(* approved (the availability-first fallback included) or no_schedule, and  *)
(* it is 1 when the status is rejected or timeout.                          *)

InvalidTimezone == "timezone" \in DOMAIN config /\ config.timezone \notin ValidTimezones

C12_InvalidTimezoneFatal ==
    (InvalidTimezone /\ pc # "main") =>
        /\ pc = "exited"
        /\ result # Undefined /\ ~result.ok
        /\ calls = << >>
        /\ schedulesResult = Undefined

C12_Witness == InvalidTimezone /\ pc = "exited" /\ exitCode.code = 1

(* C14  checkRelease never raises: whatever the capabilities do, a failure  *)
(* Result or a throw included, a run that ended has resolved to a Result:   *)
(* a success with one of the four statuses or an error Result; after a      *)
(* throw it is an error Result.                                             *)

C14_NeverRaises ==
    /\ pc = "exited" =>
          /\ result # Undefined
          /\ IF result.ok
             THEN result.value.status \in {"approved", "rejected", "timeout", "no_schedule"}
             ELSE "error" \in DOMAIN result
    /\ Threw => (pc = "exited" /\ result # Undefined /\ ~result.ok)

\* getUserInfo threw while the decision was being recorded
C14_Witness ==
    /\ pc = "exited"
    /\ \E i \in Made("getUserInfo") : Settled(i, "throw")

(* C15  Final-result mapping: whenever waitForApproval returned, the        *)
(* result is a success whose status is the polling status, whose approvers  *)
(* are the polling approvers (those of the decision recorded; absent after  *)
(* a timeout), and whose schedules are the relevant schedules, a non-empty  *)
(* list, whose persons in charge the request mentioned.                     *)

C15_FinalResultMapping ==
    Returned =>
        /\ result # Undefined /\ result.ok
        /\ result.value.status = approvalResult.status
        /\ IF approvalResult.status = "timeout"
           THEN /\ "approvers" \notin DOMAIN result.value
                /\ "approvers" \notin DOMAIN approvalResult
           ELSE /\ "approvers" \in DOMAIN result.value
                /\ result.value.approvers = approvalResult.approvers
                /\ result.value.approvers = pending.approvers
                /\ approvalResult.status = pending.status
                /\ Len(result.value.approvers) > 0
        /\ result.value.schedules = relevantSchedules
        /\ Len(relevantSchedules) > 0
        /\ \A i \in DOMAIN relevantSchedules :
              includes(calls[2].mentions, relevantSchedules[i].personInChargeId)

\* a rejection by two users on the same reaction, with two relevant schedules
C15_Witness ==
    /\ Returned /\ approvalResult.status = "rejected"
    /\ Len(result.value.approvers) = 2
    /\ Len(result.value.schedules) = 2

-----------------------------------------------------------------------------
(* Vocabulary of the properties of the utility functions *)

\* the utility function fn was applied and has returned
Applied(fn) == "fn" \in DOMAIN call /\ call.fn = fn /\ ret # Undefined

InRange(t, s) == s.startDateTime <= t /\ t < s.endDateTime

\* out holds, in the order of in, exactly the elements of in at the positions
\* in keep
SelectedInOrder(out, in, keep) ==
    /\ Len(out) = Cardinality(keep)
    /\ \A k \in DOMAIN out : \E i \in keep : out[k] = in[i]
    /\ \E f \in [DOMAIN out -> keep] :
          /\ \A k \in DOMAIN out : out[k] = in[f[k]]
          /\ \A k, l \in DOMAIN out : k < l => f[k] < f[l]

(* C13  Spreadsheet times are interpreted in the configured timezone: for   *)
(* every configured zone and every UTC offset of the host process, a row    *)
(* entered with wall clock times S and E is found active exactly when the   *)
(* wall clock time in the configured zone satisfies S <= now < E.           *)

WallClockNow == call.now + utcOffset(call.timezone) * 60 * 1000

C13_SheetTimesInConfiguredZone ==
    Applied("isScheduleRowActive") =>
        (ret.value <=> (call.start <= WallClockNow /\ WallClockNow < call.end))

(* C16  Configuration defaults: checkRelease uses the wait duration, the    *)
(* approve token, the reject token and the timezone of the config whenever  *)
(* the field is provided, and 20, 'ok', '-1' and 'Asia/Tokyo' only for a    *)
(* field that is absent.                                                    *)

Given(f, d) == IF f \in DOMAIN config THEN config[f] ELSE d

C16_DefaultsOnlyWhenAbsent ==
    Applied("checkRelease") =>
        /\ ret.value.waitMinutes = Given("waitMinutes", 20)
        /\ ret.value.approveReaction = Given("approveReaction", "ok")
        /\ ret.value.rejectReaction = Given("rejectReaction", "-1")
        /\ ret.value.timezone = Given("timezone", "Asia/Tokyo")

(* C17  isWithinTimeRange(t, start, end) is true if and only if             *)
(* start <= t < end: true at t = start of a proper range, false at t = end. *)

C17_HalfOpenRange ==
    Applied("isWithinTimeRange") =>
        /\ ret.value <=> (call.start <= call.current /\ call.current < call.end)
        /\ (call.current = call.start /\ call.start < call.end) => ret.value
        /\ call.current = call.end => ~ret.value

C17_Witness ==
    /\ Applied("isWithinTimeRange")
    /\ call.current = call.start /\ call.start < call.end
    /\ ret.value

(* C18  findActiveSchedules returns, in input order, exactly the input      *)
(* schedules with start <= t < end: a schedule is returned at t = start and *)
(* strictly inside its range, and not at t = end.                           *)

C18_ActiveInOrder ==
    Applied("findActiveSchedules") =>
        /\ SelectedInOrder(ret.value, call.schedules,
                           { i \in DOMAIN call.schedules :
                                InRange(call.current, call.schedules[i]) })
        /\ \A i \in DOMAIN call.schedules :
              LET s == call.schedules[i]
              IN  /\ (call.current = s.startDateTime /\ s.startDateTime < s.endDateTime)
                        => includes(ret.value, s)
                  /\ call.current = s.endDateTime => ~includes(ret.value, s)

\* two different schedules returned in input order, the first at its start,
\* the second strictly inside its range
C18_Witness ==
    /\ Applied("findActiveSchedules")
    /\ ret.value = call.schedules
    /\ Len(ret.value) = 2
    /\ ret.value[1].startDateTime = call.current
    /\ ret.value[2].startDateTime < call.current

(* C19  findOverlappingSchedules returns the pair (A, B) of two input       *)
(* schedules, A before B, if and only if they have the same environment and *)
(* A.start < B.end and B.start < A.end; of proper ranges, two that are      *)
(* disjoint or merely touch, and two of different environments, are never   *)
(* returned as a pair.                                                      *)

Overlapping(a, b) ==
    /\ a.environmentName = b.environmentName
    /\ a.startDateTime < b.endDateTime
    /\ b.startDateTime < a.endDateTime

OverlappingPairs(schedules) ==
    { p \in (DOMAIN schedules) \X (DOMAIN schedules) :
        p[1] < p[2] /\ Overlapping(schedules[p[1]], schedules[p[2]]) }

Proper(s) == s.startDateTime < s.endDateTime

C19_OverlapPairs ==
    Applied("findOverlappingSchedules") =>
        /\ Len(ret.value) = Cardinality(OverlappingPairs(call.schedules))
        /\ \A p \in OverlappingPairs(call.schedules) :
              includes(ret.value, <<call.schedules[p[1]], call.schedules[p[2]]>>)
        /\ \A k \in DOMAIN ret.value :
              /\ \E p \in OverlappingPairs(call.schedules) :
                    ret.value[k] = <<call.schedules[p[1]], call.schedules[p[2]]>>
              /\ ret.value[k][1].environmentName = ret.value[k][2].environmentName
              /\ (Proper(ret.value[k][1]) /\ Proper(ret.value[k][2])) =>
                    /\ ret.value[k][1].endDateTime > ret.value[k][2].startDateTime
                    /\ ret.value[k][2].endDateTime > ret.value[k][1].startDateTime

\* two different overlapping schedules of one environment, returned as a pair
C19_Witness ==
    /\ Applied("findOverlappingSchedules")
    /\ Len(call.schedules) = 2
    /\ call.schedules[1] # call.schedules[2]
    /\ ret.value = << <<call.schedules[1], call.schedules[2]>> >>

(* C20  findRelevantSchedules returns, in input order, exactly the input    *)
(* schedules whose product and environment equal the requested strings and  *)
(* whose range satisfies start <= now < end.                                *)

-----------------------------------------------------------------------------
(* C23  The mention list of the approval request holds every person in      *)
(* charge of the relevant schedules exactly once, ordered by first          *)
(* occurrence in the schedule list, and nobody else.                        *)

FirstOccurrence(id) ==
    CHOOSE i \in DOMAIN relevantSchedules :
        /\ relevantSchedules[i].personInChargeId = id
        /\ \A j \in 1..(i - 1) : relevantSchedules[j].personInChargeId # id

C23_MentionsOnceInOrder ==
    RequestPosted =>
        LET mentions == calls[2].mentions
        IN  /\ \A i \in DOMAIN relevantSchedules :
                  Cardinality({ k \in DOMAIN mentions :
                                  mentions[k] = relevantSchedules[i].personInChargeId }) = 1
            /\ \A k \in DOMAIN mentions :
                  \E i \in DOMAIN relevantSchedules :
                      relevantSchedules[i].personInChargeId = mentions[k]
            /\ \A k, l \in DOMAIN mentions :
                  k < l => FirstOccurrence(mentions[k]) < FirstOccurrence(mentions[l])

\* two relevant schedules of one person, mentioned once
C23_Witness ==
    /\ RequestPosted
    /\ Len(relevantSchedules) = 2
    /\ calls[2].mentions = <<"U_AAA">>

(* C24  Polling lasts at most the configured wait duration: with a positive *)
(* wait, waitForApproval returns no later than waitMinutes minutes after it *)
(* started.                                                                 *)

C24_ReturnsWithinWait ==
    (Returned /\ wfa.waitMinutes > 0) =>
        clock - wfa.startTime <= wfa.waitMinutes * 60 * 1000

(* C25  Slow ticks do not extend the deadline: the start time, like every   *)
(* argument of the poll, is set once when polling begins and never changes, *)
(* and a reaction fetch is in flight only if it was started at a clock      *)
(* value with clock - start < timeout.                                      *)

C25_DeadlineFromStart ==
    /\ [](pc = "getReactions" =>
             /\ wfa # Undefined
             /\ calls[Len(calls)].op = "getReactions"
             /\ Len(outcomes) = Len(calls) - 1
             /\ clock - wfa.startTime < wfa.waitMinutes * 60 * 1000)
    /\ [](wfa # Undefined => wfa.startTime <= clock)
    /\ [][wfa # Undefined => wfa' = wfa]_vars

\* one slow fetch used up the wait: no second fetch was started
C25_Witness ==
    /\ Returned /\ approvalResult.status = "timeout"
    /\ wfa.waitMinutes = 1
    /\ Cardinality(Made("getReactions")) = 1

(* C26  Ordering of the decision record: a poll that ends approved or       *)
(* rejected made exactly one getUserInfo call and then exactly one          *)
(* postThreadMessage call, right after the deciding fetch and settled       *)
(* before the return, both for the first non-excluded user of the deciding  *)
(* reaction; a poll that ends timeout, or has not decided, made neither.    *)

CountedAt(reactions, token, excluded) ==
    UNION { { <<i, k>> : k \in { k \in DOMAIN reactions[i].users :
                                   ~includes(excluded, reactions[i].users[k]) } } :
            i \in { i \in DOMAIN reactions : reactions[i].name = token } }

\* the first user, in the order of the list, who counts for the token
FirstCounted(reactions, token, excluded) ==
    LET at == CountedAt(reactions, token, excluded)
        p == CHOOSE p \in at :
                \A q \in at : p[1] < q[1] \/ (p[1] = q[1] /\ p[2] <= q[2])
    IN  reactions[p[1]].users[p[2]]

LastCall(n) == calls[Len(calls) - n]

C26_DecisionRecordOrder ==
    /\ pc \in {"getReactions", "sleep"} =>
          Made("getUserInfo") \cup Made("postThreadMessage") = {}
    /\ pc = "getUserInfo" =>
          /\ LastCall(1).op = "getReactions"
          /\ LastCall(0) =
                [op |-> "getUserInfo",
                 userId |-> FirstCounted(fetched.value,
                                         IF CountedReject THEN wfa.rejectReaction
                                                          ELSE wfa.approveReaction,
                                         wfa.excludeUserIds)]
          /\ Made("postThreadMessage") = {}
    /\ pc = "postThreadMessage" =>
          /\ LastCall(2).op = "getReactions"
          /\ LastCall(1).op = "getUserInfo"
          /\ LastCall(0).op = "postThreadMessage"
          /\ LastCall(0).text.user = LastCall(1).userId
          /\ ~Returned
    /\ (Returned /\ approvalResult.status \in {"approved", "rejected"}) =>
          /\ Cardinality(Made("getUserInfo")) = 1
          /\ Cardinality(Made("postThreadMessage")) = 1
          /\ LastCall(2).op = "getReactions"
          /\ LastCall(1).op = "getUserInfo"
          /\ LastCall(0).op = "postThreadMessage"
          /\ LastCall(0).threadTs = wfa.messageTimestamp
          /\ LastCall(1).userId = approvalResult.approvers[1]
          /\ LastCall(0).text.user = approvalResult.approvers[1]
          /\ LastCall(0).text.mark = approvalResult.status
          /\ ~includes(wfa.excludeUserIds, LastCall(1).userId)
          /\ Len(outcomes) = Len(calls)
    /\ (Returned /\ approvalResult.status = "timeout") =>
          Made("getUserInfo") \cup Made("postThreadMessage") = {}

\* a rejection by two users, recorded for the first of them, while the
\* requester is excluded
C26_Witness ==
    /\ Returned /\ approvalResult.status = "rejected"
    /\ approvalResult.approvers = <<"U_BBB", "U_AAA">>
    /\ wfa.excludeUserIds = <<"U_REQ">>
    /\ LastCall(1).userId = "U_BBB"

(* C27  Recording the decision is best-effort: after a failed getUserInfo   *)
(* the thread reply is posted with the placeholder name, and whether        *)
(* getUserInfo and postThreadMessage return success or failure, the poll    *)
(* returns the status and the approvers decided on the reaction list.       *)

C27_RecordIsBestEffort ==
    /\ \A i \in Made("getUserInfo") :
          /\ Settled(i, "err") =>
                /\ i + 1 \in Made("postThreadMessage")
                /\ calls[i + 1].text.userName = <<"Unknown User">>
          /\ Settled(i, "ok") =>
                /\ i + 1 \in Made("postThreadMessage")
                /\ calls[i + 1].text.userName = <<"name of", calls[i].userId>>
    /\ \A j \in Made("postThreadMessage") :
          (Settled(j, "ok") \/ Settled(j, "err")) =>
              /\ Returned
              /\ approvalResult = [status |-> pending.status, approvers |-> pending.approvers]
              /\ Resolved(pending.status)
              /\ result.value.approvers = pending.approvers
    /\ (pending # Undefined /\ pc \in {"getUserInfo", "postThreadMessage"}) => ~Returned

\* an approval whose lookup and whose thread reply both failed
C27_Witness ==
    /\ Returned /\ approvalResult.status = "approved"
    /\ \E i \in Made("getUserInfo") : Settled(i, "err")
    /\ \E j \in Made("postThreadMessage") : Settled(j, "err")

\* C28: getScheduleStatus returns one of NOT_STARTED, ACTIVE and COMPLETED;
\* for every range, the empty and the inverted ones included, it returns ACTIVE
\* exactly when isWithinTimeRange holds of the instant and the range,
\* NOT_STARTED exactly when the instant is before the start, and COMPLETED in
\* every other case.
C28_StatusAgreesWithRange ==
    Applied("getScheduleStatus") =>
        LET t == call.currentTime
            s == call.schedule
            within == isWithinTimeRange(t, s.startDateTime, s.endDateTime)
        IN  /\ ret.value \in {"NOT_STARTED", "ACTIVE", "COMPLETED"}
            /\ ret.value = "ACTIVE" <=> within
            /\ ret.value = "NOT_STARTED" <=> t < s.startDateTime
            /\ ret.value = "COMPLETED" <=> (~within /\ ~(t < s.startDateTime))

\* an instant at or after the end of an inverted range and before its start
C28_Witness ==
    /\ Applied("getScheduleStatus")
    /\ call.schedule.endDateTime < call.schedule.startDateTime
    /\ call.schedule.endDateTime <= call.currentTime
    /\ call.currentTime < call.schedule.startDateTime
    /\ ret.value = "NOT_STARTED"

\* the number a run of digits writes
NumberOf(digits) ==
    LET unit(i) == IF i > Len(digits) THEN 0
                   ELSE CHOOSE n \in 0..9 : numeral(n, 1) = <<digits[Len(digits) - i + 1]>>
    IN  unit(1) + 10 * unit(2) + 100 * unit(3) + 1000 * unit(4) + 10000 * unit(5)

\* YYYY/MM/DD HH:MM with an optional :SS: a year of four digits, the other
\* components of one or two, white space between the date and the time
InPattern(w) ==
    /\ w.lead = << >> /\ w.trail = << >>
    /\ Len(w.year) = 4 /\ w.sep1 = <<"/">>
    /\ Len(w.month) \in 1..2 /\ w.sep2 = <<"/">>
    /\ Len(w.day) \in 1..2
    /\ w.space # << >> /\ \A i \in DOMAIN w.space : w.space[i] \in {" ", "\t"}
    /\ Len(w.hour) \in 1..2 /\ w.sep3 = <<":">>
    /\ Len(w.minute) \in 1..2
    /\ \/ w.sep4 = << >> /\ w.second = << >>
       \/ w.sep4 = <<":">> /\ Len(w.second) \in 1..2

DaysInMonth(year, month) ==
    IF month \in {4, 6, 9, 11} THEN 30
    ELSE IF month # 2 THEN 31
    ELSE IF year % 4 = 0 /\ (year % 100 # 0 \/ year % 400 = 0) THEN 29
    ELSE 28

\* the components the text writes, the second 0 when it is left out
ComponentsOf(w) ==
    [FullYear |-> NumberOf(w.year), Month |-> NumberOf(w.month) - 1, Date |-> NumberOf(w.day),
     Hours |-> NumberOf(w.hour), Minutes |-> NumberOf(w.minute),
     Seconds |-> IF w.second = << >> THEN 0 ELSE NumberOf(w.second)]

\* a date of the calendar and a time of the day
IsRealDateTime(c) ==
    /\ c.Month + 1 \in 1..12
    /\ c.Date \in 1..DaysInMonth(c.FullYear, c.Month + 1)
    /\ c.Hours \in 0..23 /\ c.Minutes \in 0..59 /\ c.Seconds \in 0..59

\* C22: parseDateTime succeeds exactly when the text is in the pattern
\* YYYY/MM/DD HH:MM with an optional :SS and its components are a real date of
\* the calendar and a real time of the day; the year, month, day, hour, minute
\* and second of the instant it returns are then the ones written, the second
\* 0 when it is left out.
C22_ParsesExactlyRealDateTimes ==
    Applied("parseDateTime") =>
        /\ ret.value.ok <=> (InPattern(call.typed) /\ IsRealDateTime(ComponentsOf(call.typed)))
        /\ ret.value.ok =>
               getLocal(ret.value.value, call.hostOffset) = ComponentsOf(call.typed)

\* the same, for years from 100 on and for times the clocks of the host do
\* not skip
C22_ParsesRealDateTimesOfTheHost ==
    Applied("parseDateTime") =>
        LET c == ComponentsOf(call.typed)
            skipped == /\ call.hostOffset = -5 * 60
                       /\ <<c.FullYear, c.Month + 1, c.Date, c.Hours>>
                              \in {<<2024, 3, 10, 2>>, <<2025, 3, 9, 2>>}
        IN  /\ ret.value.ok <=>
                   /\ InPattern(call.typed) /\ IsRealDateTime(c)
                   /\ c.FullYear >= 100 /\ ~skipped
            /\ ret.value.ok => getLocal(ret.value.value, call.hostOffset) = c

\* the last second of a leap day, parsed
C22_Witness ==
    /\ Applied("parseDateTime")
    /\ textOf(call.typed) = <<"2", "0", "2", "4", "/", "0", "2", "/", "2", "9", " ",
                             "2", "3", ":", "5", "9", ":", "5", "9">>
    /\ ret.value.ok
    /\ getLocal(ret.value.value, call.hostOffset) =
           [FullYear |-> 2024, Month |-> 1, Date |-> 29, Hours |-> 23, Minutes |-> 59,
            Seconds |-> 59]

\* C21: validateScheduleRow succeeds exactly when the row has at least seven
\* cells, the third and the fourth parse with parseDateTime and the fifth has
\* at least three characters; the error of a row that fails names the first
\* check that fails, in the order columns, start datetime, end datetime,
\* person in charge ID.
C21_FirstFailingCheckNamed ==
    Applied("validateScheduleRow") =>
        LET row == call.row
            columns == Len(row) >= 7
            start == parseDateTime(row[3], call.hostOffset).ok
            end == parseDateTime(row[4], call.hostOffset).ok
            id == Len(row[5]) >= 3
        IN  /\ ret.value.ok <=> (columns /\ start /\ end /\ id)
            /\ ~ret.value.ok =>
                   ret.value.error[1] =
                       IF ~columns THEN "Invalid row data: insufficient columns"
                       ELSE IF ~start THEN "Invalid start datetime: "
                       ELSE IF ~end THEN "Invalid end datetime: "
                       ELSE "Invalid person in charge ID: "

\* a row with a month 13 in its start and an identifier of two characters
\* reports the start datetime
C21_Witness ==
    /\ Applied("validateScheduleRow")
    /\ Len(call.row) = 7
    /\ call.row[3] = textOf([OneDateTime EXCEPT !.month = numeral(13, 2)])
    /\ call.row[4] = textOf(OneDateTime)
    /\ call.row[5] = <<"U", "1">>
    /\ ~ret.value.ok
    /\ ret.value.error[1] = "Invalid start datetime: "

\* the positions of the rows after the first that pass validateScheduleRow
ValidDataRows ==
    { i \in 2..Len(call.getValues.value) :
        validateScheduleRow(call.getValues.value[i], call.hostOffset).ok }

-----------------------------------------------------------------------------
(* Claims about two runs at once. *)

\* run r has posted its approval request
HasPosted(r) == runs[r].wfa # Undefined

\* the message of the channel that run r posted as its approval request
RequestOf(r) ==
    CHOOSE m \in { messages[i] : i \in DOMAIN messages } : m.ts = runs[r].wfa.messageTimestamp

RunStatus(r) ==
    IF runs[r].pc = "returned" /\ runs[r].result.ok THEN runs[r].result.value.status
    ELSE "none"

\* C30: two runs for the same product and environment, interleaved in any
\* order, are not kept from running at once; each posts its own approval
\* request, a message of the channel with a timestamp of its own, and each
\* takes its decision only from the reactions that message has when the run
\* fetches them: a reaction on the message of one run never decides the other.
C30_RunsDecideFromOwnMessage ==
    /\ [](\A r \in Runs : HasPosted(r) =>
             /\ \E i \in DOMAIN messages :
                   /\ messages[i].ts = runs[r].wfa.messageTimestamp
                   /\ messages[i].thread_ts = Undefined
             /\ \A q \in Runs \ {r} :
                   HasPosted(q) => runs[q].wfa.messageTimestamp # runs[r].wfa.messageTimestamp)
    /\ [][\A r \in Runs :
            runs'[r].pending # runs[r].pending =>
                /\ runs'[r].pending = decide(RequestOf(r).reactions, runs[r].wfa)
                /\ runs'[r].pending # Undefined]_vars
    /\ [](\A r \in Runs :
            RunStatus(r) \in {"approved", "rejected"} =>
                runs[r].result.value.status = runs[r].pending.status)

\* both runs have ended approved, each on its own message
C30_Witness ==
    /\ \A r \in Runs : RunStatus(r) = "approved"
    /\ runs[1].wfa.messageTimestamp # runs[2].wfa.messageTimestamp

-----------------------------------------------------------------------------
(* Claims about the run as a whole *)

\* a user of a reaction named token in the list
ReactedWith(reactions, token, user) ==
    \E i \in DOMAIN reactions :
        reactions[i].name = token /\ \E k \in DOMAIN reactions[i].users :
                                         reactions[i].users[k] = user

\* C31: a release is blocked only after a human was asked. checkRelease
\* resolves to 'rejected' or 'timeout' only when the fetch of the schedules
\* succeeded, at least one schedule matched the product, the environment and
\* the time, and the approval request was posted; and a 'rejected' result
\* carries at least one rejector, each of them a user that a fetch showed on
\* the reject reaction.
C31_BlockedOnlyAfterAsking ==
    /\ []((Resolved("rejected") \/ Resolved("timeout")) =>
            /\ Settled(1, "ok")
            /\ relevantSchedules # << >>
            /\ \A i \in DOMAIN relevantSchedules :
                  /\ relevantSchedules[i].productName = config.productName
                  /\ relevantSchedules[i].environmentName = config.environmentName
                  /\ InRange(currentTimeResult.value, relevantSchedules[i])
            /\ RequestPosted
            /\ Settled(2, "ok"))
    /\ [](Resolved("rejected") =>
            /\ "approvers" \in DOMAIN result.value
            /\ Len(result.value.approvers) >= 1
            /\ pending # Undefined /\ pending.status = "rejected"
            /\ result.value.approvers = pending.approvers)
    /\ [][(pending' # pending /\ pending'.status = "rejected") =>
            /\ fetched'.ok
            /\ \A k \in DOMAIN pending'.approvers :
                  ReactedWith(fetched'.value, wfa.rejectReaction, pending'.approvers[k])]_vars

\* a rejection returned after the request was posted and a fetch showed it
C31_Witness ==
    /\ Resolved("rejected")
    /\ Settled(1, "ok") /\ Settled(2, "ok")
    /\ Len(result.value.approvers) >= 1

\* C32: a run posts at most one top-level message to the channel: the error
\* notice, after a failed fetch of the schedules, or the approval request,
\* when schedules are relevant, never both; while it polls it posts none,
\* whatever the fetches of the reactions return.
C32_OneTopLevelMessage ==
    /\ [](/\ Cardinality(Made("postMessage")) <= 1
          /\ \A i \in Made("postMessage") :
                /\ i = 2
                /\ IsErrorNotice(calls[i]) \/ IsApprovalRequest(calls[i])
                /\ IsErrorNotice(calls[i]) => SheetsFailed
                /\ IsApprovalRequest(calls[i]) =>
                       Settled(1, "ok") /\ relevantSchedules # << >>)
    /\ [][wfa # Undefined => Made("postMessage")' = Made("postMessage")]_vars

\* a poll of four fetches, two of them failed, after one approval request
C32_Witness ==
    /\ Returned
    /\ Cardinality(Made("getReactions")) = 4
    /\ Cardinality({ i \in Made("getReactions") : Settled(i, "err") }) >= 2
    /\ Cardinality(Made("postMessage")) = 1
    /\ RequestPosted

Excluded(user) == \E x \in DOMAIN wfa.excludeUserIds : wfa.excludeUserIds[x] = user

\* C33: an excluded identifier is never a decider. The approvers that
\* waitForApproval returns, the user passed to getUserInfo and the user named
\* in the thread reply are never in excludeUserIds, also when the excluded
\* user reacted together with other users on the deciding reaction.
C33_ExcludedNeverDecides ==
    /\ \A i \in Made("getUserInfo") : ~Excluded(calls[i].userId)
    /\ \A i \in Made("postThreadMessage") : ~Excluded(calls[i].text.user)
    /\ pending # Undefined =>
           \A k \in DOMAIN pending.approvers : ~Excluded(pending.approvers[k])
    /\ (Returned /\ "approvers" \in DOMAIN approvalResult) =>
           \A k \in DOMAIN approvalResult.approvers : ~Excluded(approvalResult.approvers[k])
    /\ (result # Undefined /\ result.ok /\ "approvers" \in DOMAIN result.value) =>
           \A k \in DOMAIN result.value.approvers : ~Excluded(result.value.approvers[k])

\* the requester and another user on the deciding reaction: the other decides
C33_Witness ==
    /\ pc = "getUserInfo"
    /\ wfa.excludeUserIds = <<Requester>>
    /\ FetchedOk
    /\ \E i \in DOMAIN fetched.value :
          /\ fetched.value[i].name = wfa.approveReaction
          /\ fetched.value[i].users = <<Requester, "U_AAA">>
    /\ pending.status = "approved"
    /\ pending.approvers = <<"U_AAA">>
    /\ LastCall(0).userId = "U_AAA"

\* C34: what the approval request announces is what the poll uses. For every
\* config, with its optional fields absent, given, zero or empty, the approve
\* token, the reject token and the timeout in minutes written into the
\* message are the values checkRelease passes to waitForApproval.
C34_AnnouncedIsPolled ==
    Applied("requestApproval") =>
        /\ ret.value.text.approve = ret.value.polling.approveReaction
        /\ ret.value.text.reject = ret.value.polling.rejectReaction
        /\ ret.value.text.timeout = ret.value.polling.waitMinutes
        /\ ret.value.polling.timeoutMs = ret.value.text.timeout * 60 * 1000

\* empty tokens given: the defaults are announced and polled
C34_Witness ==
    /\ Applied("requestApproval")
    /\ "approveReaction" \in DOMAIN config /\ config.approveReaction = ""
    /\ ret.value.text.approve = "ok"
    /\ ret.value.polling.approveReaction = "ok"
    /\ ret.value.text.timeout = config.waitMinutes

\* C35: a range that ends at or before its start is tolerated and is never
\* active. A row whose end is not after its start is accepted by
\* validateScheduleRow; the schedule made of it is returned by
\* findActiveSchedules and by findRelevantSchedules at no instant, before,
\* at, between or after its two ends, and checkRelease does not take the
\* branch that posts the approval request for it.
C35_DegenerateNeverActive ==
    Applied("scheduleRowRequested") =>
        /\ ret.value.row.ok
        /\ call.start = call.end =>
              ret.value.row.value.endDateTime = ret.value.row.value.startDateTime
        /\ ret.value.row.value.endDateTime <= ret.value.row.value.startDateTime =>
              /\ ret.value.active = << >>
              /\ ret.value.relevant = << >>
              /\ ~ret.value.requested

\* a row that ends two hours and a half before it starts, checked at the
\* instant of its start
C35_Witness ==
    /\ Applied("scheduleRowRequested")
    /\ call.start # call.end
    /\ call.at = "start"
    /\ ret.value.row.ok
    /\ ret.value.row.value.endDateTime < ret.value.row.value.startDateTime
    /\ ret.value.current = ret.value.row.value.startDateTime
    /\ ~ret.value.requested

BothActiveAt(schedules, t) == Len(findActiveSchedules(schedules, t)) = 2

\* C36: overlap detection agrees with activity. Two schedules of the same
\* environment are reported as a pair by findOverlappingSchedules if and only
\* if there is an instant at which findActiveSchedules returns both of them.
C36_OverlapIffBothActive ==
    (/\ Applied("findOverlappingSchedules")
     /\ Len(call.schedules) = 2
     /\ call.schedules[1].environmentName = call.schedules[2].environmentName)
    => ((ret.value = << call.schedules >>)
            <=> \E t \in Instants : BothActiveAt(call.schedules, t))

\* C36, of ranges that end after they start: two such schedules of the same
\* environment are reported as a pair by findOverlappingSchedules if and only
\* if there is an instant at which findActiveSchedules returns both of them.
C36_ProperOverlapIffBothActive ==
    (/\ Applied("findOverlappingSchedules")
     /\ Len(call.schedules) = 2
     /\ call.schedules[1].environmentName = call.schedules[2].environmentName
     /\ Proper(call.schedules[1]) /\ Proper(call.schedules[2]))
    => ((ret.value = << call.schedules >>)
            <=> \E t \in Instants : BothActiveAt(call.schedules, t))

\* two different proper ranges of one environment, the second starting
\* first: reported as a pair, and both active at an instant
C36_Witness ==
    /\ Applied("findOverlappingSchedules")
    /\ Len(call.schedules) = 2
    /\ Proper(call.schedules[1]) /\ Proper(call.schedules[2])
    /\ call.schedules[1].environmentName = call.schedules[2].environmentName
    /\ call.schedules[2].startDateTime < call.schedules[1].startDateTime
    /\ ret.value = << call.schedules >>
    /\ \E t \in Instants : BothActiveAt(call.schedules, t)

\* the least integer not below a / b, for b > 0
Ceiling(a, b) == (a + b - 1) \div b

\* C37: the number of ticks is bounded. With a poll interval p > 0 and a
\* timeout T, one run of waitForApproval fetches the reactions at most
\* ceil(T / p) times, however many fetches fail and however long each takes,
\* and not once when T <= 0.
C37_BoundedFetches ==
    wfa # Undefined =>
        /\ wfa.pollIntervalMs > 0
        /\ wfa.timeoutMs > 0 =>
              Cardinality(Made("getReactions"))
                  <= Ceiling(wfa.timeoutMs, wfa.pollIntervalMs)
        /\ wfa.timeoutMs <= 0 => Made("getReactions") = {}

\* the bound is reached: the fourth fetch of a wait of one minute, polled
\* every 15 s, after a fetch that failed and one that found no counted
\* reaction
C37_Witness ==
    /\ wfa # Undefined
    /\ wfa.timeoutMs = 60000 /\ wfa.pollIntervalMs = 15000
    /\ pc = "getReactions"
    /\ Cardinality(Made("getReactions")) = 4
    /\ \E i, j \in Made("getReactions") : Settled(i, "err") /\ Settled(j, "ok")

\* the users who count for the token in a reaction list
CountedUsers(reactions, token, excluded) ==
    { reactions[p[1]].users[p[2]] : p \in CountedAt(reactions, token, excluded) }

\* the decision read off one reaction list alone: a counted reject first
Snapshot(reactions, w) ==
    IF Counted(reactions, w.rejectReaction, w.excludeUserIds)
    THEN [status |-> "rejected",
          users |-> CountedUsers(reactions, w.rejectReaction, w.excludeUserIds)]
    ELSE [status |-> "approved",
          users |-> CountedUsers(reactions, w.approveReaction, w.excludeUserIds)]

Deciders(d) == { d.approvers[k] : k \in DOMAIN d.approvers }

\* C38: the first decisive tick wins and only its snapshot matters. A
\* successful fetch without a counted reaction decides nothing; the first
\* successful fetch that holds a counted reaction fixes the status and the
\* deciders from its reaction list alone; after it no reaction is fetched
\* again and the decision does not change, so that a reject added after an
\* approving tick, or a reaction present only between two fetches, cannot
\* reach the result; what waitForApproval returns is that decision.
C38_FirstDecisiveTickWins ==
    /\ [](pc = "sleep" /\ FetchedOk =>
            /\ pending = Undefined
            /\ ~CountedReject /\ ~CountedApprove)
    /\ [][(pending = Undefined /\ pending' # Undefined) =>
            /\ FetchedOk'
            /\ CountedReject' \/ CountedApprove'
            /\ pending'.status = Snapshot(fetched'.value, wfa).status
            /\ Deciders(pending') = Snapshot(fetched'.value, wfa).users]_vars
    /\ [][pending # Undefined =>
            /\ pending' = pending
            /\ Made("getReactions")' = Made("getReactions")]_vars
    /\ [](Returned /\ approvalResult.status # "timeout" =>
            /\ pending # Undefined
            /\ approvalResult.status = pending.status
            /\ approvalResult.approvers = pending.approvers
            /\ Resolved(pending.status)
            /\ result.value.approvers = pending.approvers)
    /\ [](Returned /\ approvalResult.status = "timeout" => pending = Undefined)

\* approved on the third fetch, after a fetch that failed and one that held
\* no counted reaction
C38_Witness ==
    /\ Resolved("approved")
    /\ Returned
    /\ pending # Undefined /\ pending.status = "approved"
    /\ Cardinality(Made("getReactions")) = 3
    /\ \E i, j \in Made("getReactions") : i < j /\ Settled(i, "err") /\ Settled(j, "ok")
    /\ LastCall(0).op = "postThreadMessage"

=============================================================================
